---- MODULE Spec2Model ----
(***************************************************************************)
(* GifMaker: the conversion Worker (src/worker.py) driven by the Qt event  *)
(* loop, together with the QProcess objects it creates.  Every slot of the *)
(* Worker runs to completion on the worker's thread, so one action of the  *)
(* model is one event delivered by the event loop and the whole handler    *)
(* it triggers, nested calls included.  StreamSpec is the same worker      *)
(* with the output of its render process recorded beside what the worker   *)
(* reads; LiveSpec adds the scheduling of timers and process exits.        *)
(*                                                                         *)
(* The ProcessRunner (src/process_runner.py) is modelled next to it, with   *)
(* specifications of its own: RunnerSpec for the life of its processes,    *)
(* LinesSpec for the cutting of one process's output into lines.           *)
(*                                                                         *)
(* The plan builders and helpers of src/engine.py, and the command lines   *)
(* the Worker assembles itself, are functions of the job alone; EngineSpec *)
(* applies them to the jobs, progress texts and measurements of the        *)
(* inputs. A command line argument is a string.                            *)
(*                                                                         *)
(* Text (paths, stdout data) is a sequence of one-character strings.       *)
(* Handlers are operators from a state record to a state record; Commit    *)
(* writes the record back to the variables.                                *)
(***************************************************************************)
EXTENDS Integers, Sequences, FiniteSets, TLC

\* ------------------------------------------------------------------ bounds

\* How many times the cancel slot may be invoked in one job.
MaxCancelCalls == 2
\* No further read-error event is delivered once this many results were emitted.
MaxResults == 2
\* Stdout data kept in the worker's buffer (it only survives a handler that raised).
MaxBuf == 12
\* Characters a render process writes at most without ending the line.
MaxPending == 7

\* How many QProcess objects one ProcessRunner creates.
MaxStarts == 2
\* Bytes one process of the runner delivers, both streams together, while the
\* runner goes from process to process.
MaxRunBytes == 1
\* Bytes the one process delivers, both streams together, when the cutting of
\* its output into chunks is examined.
MaxBytes == 3

\* --------------------------------------------------------------- constants

Steps == {"IDLE", "PALETTE", "RENDER", "OPTIMIZE", "FINISHED"}

\* Step.<name>.value as assigned by enum.auto().
StepValue(step) ==
    CASE step = "IDLE"     -> 1
      [] step = "PALETTE"  -> 2
      [] step = "RENDER"   -> 3
      [] step = "OPTIMIZE" -> 4
      [] step = "FINISHED" -> 5

WeightedSteps == {"PALETTE", "RENDER", "OPTIMIZE"}

STEP_WEIGHTS(step) ==
    CASE step = "PALETTE"  -> 10
      [] step = "RENDER"   -> 70
      [] step = "OPTIMIZE" -> 20
      [] OTHER             -> 0

FFMPEG_RENDER     == "ffmpeg-render"
FFMPEG_PALETTE    == "ffmpeg-palette"
GIFSICLE_OPTIMIZE == "gifsicle-optimize"

\* -------------------------------------------------------------------- text

Upper == <<"A", "B", "E", "F", "G", "I", "P", "W">>
LowerOf == <<"a", "b", "e", "f", "g", "i", "p", "w">>

\* str.lower() on one character.
LowerChar(c) ==
    IF \E k \in 1..Len(Upper) : Upper[k] = c
    THEN LowerOf[CHOOSE k \in 1..Len(Upper) : Upper[k] = c]
    ELSE c

\* str.lower()
Lower(str) == [k \in 1..Len(str) |-> LowerChar(str[k])]

\* str.endswith(suffix)
EndsWith(str, suffix) ==
    /\ Len(suffix) <= Len(str)
    /\ SubSeq(str, Len(str) - Len(suffix) + 1, Len(str)) = suffix

DotWebp == <<".", "w", "e", "b", "p">>

\* ------------------------------------------------------------------- state

VARIABLES
    settings,               \* the job: output_file, total_duration, fps
    _is_cancelled,          \* Worker._is_cancelled
    _kill_timer,            \* Worker._kill_timer: "none", "armed" or "fired"
    ffmpeg_frame_count,     \* Worker.ffmpeg_frame_count
    current_qprocess,       \* Worker.current_qprocess: index into procs, 0 = None
    temp_dir_obj,           \* Worker.temp_dir_obj is held
    pal_file,               \* Worker.pal_file is held
    current_step,           \* Worker.current_step
    stdout_buffer,          \* Worker.stdout_buffer
    estimated_total_frames, \* Worker.estimated_total_frames, -1 = attribute not set
    procs,                  \* every QProcess the worker created, in launch order
    probes,                 \* every ffprobe run by get_video_fps
    tmp_exists,             \* the temp directory exists on disk
    pal_exists,             \* palette.png exists in the temp directory
    tmp_created,            \* tempfile.TemporaryDirectory() was called
    tmp_failed,             \* tempfile.TemporaryDirectory() raised
    last_pct,               \* the last percentage progress_signal carried, -1 = none yet
    started,                \* run_conversion was called
    cancel_calls,           \* how often request_cancellation_slot was invoked
    observed,               \* what the render process writes is recorded
    results,                \* every finished_signal emitted, in order
    out                     \* what the last handler emitted, in order

\* A ProcessRunner (src/process_runner.py) and the QProcess objects it creates.
VARIABLES
    _process,               \* ProcessRunner._process: index into qprocs, 0 = None
    _stdout_buffer,         \* ProcessRunner._stdout_buffer
    _stderr_buffer,         \* ProcessRunner._stderr_buffer
    _log_prefix,            \* ProcessRunner._log_prefix
    _last_error,            \* ProcessRunner._last_error
    qprocs,                 \* every QProcess the runner created, in order
    rx_stdout,              \* the bytes read from stdout since the last accepted start
    rx_stderr,              \* the bytes read from stderr since the last accepted start
    stdout_line,            \* the stdout_line signals emitted since then, in order
    stderr_line,            \* the stderr_line signals emitted since then, in order
    emitted                 \* what the runner's last handler emitted and returned

\* One call of a function of src/engine.py, or of the part of a Worker step
\* that assembles a command line.
VARIABLES
    job,                    \* the job the commands are built for
    progress_line,          \* the text parsed, with the fields it was written from
    measured,               \* the duration and frame rate the estimate is made from
    returned                \* the function called last and what it returned

engineVars == <<job, progress_line, measured, returned>>

runnerVars == <<_process, _stdout_buffer, _stderr_buffer, _log_prefix, _last_error,
                qprocs, rx_stdout, rx_stderr, stdout_line, stderr_line, emitted>>

workerVars == <<settings, _is_cancelled, _kill_timer, ffmpeg_frame_count, current_qprocess,
                temp_dir_obj, pal_file, current_step, stdout_buffer,
                estimated_total_frames, procs, probes, tmp_exists, pal_exists,
                tmp_created, tmp_failed, last_pct, started, cancel_calls, observed,
                results, out>>

vars == <<workerVars, runnerVars, engineVars>>

\* The state a handler starts from: the variables, and nothing emitted yet.
State ==
    [is_cancelled |-> _is_cancelled, kill_timer |-> _kill_timer,
     ffmpeg_frame_count |-> ffmpeg_frame_count, current_qprocess |-> current_qprocess,
     temp_dir_obj |-> temp_dir_obj, pal_file |-> pal_file,
     current_step |-> current_step, stdout_buffer |-> stdout_buffer,
     estimated_total_frames |-> estimated_total_frames,
     procs |-> procs, probes |-> probes, tmp_exists |-> tmp_exists,
     pal_exists |-> pal_exists, tmp_created |-> tmp_created,
     tmp_failed |-> tmp_failed, last_pct |-> last_pct,
     results |-> results, out |-> <<>>]

\* The state a handler leaves behind.
Commit(s) ==
    /\ _is_cancelled' = s.is_cancelled
    /\ _kill_timer' = s.kill_timer
    /\ ffmpeg_frame_count' = s.ffmpeg_frame_count
    /\ current_qprocess' = s.current_qprocess
    /\ temp_dir_obj' = s.temp_dir_obj
    /\ pal_file' = s.pal_file
    /\ current_step' = s.current_step
    /\ stdout_buffer' = s.stdout_buffer
    /\ estimated_total_frames' = s.estimated_total_frames
    /\ procs' = s.procs
    /\ probes' = s.probes
    /\ tmp_exists' = s.tmp_exists
    /\ pal_exists' = s.pal_exists
    /\ tmp_created' = s.tmp_created
    /\ tmp_failed' = s.tmp_failed
    /\ last_pct' = s.last_pct
    /\ results' = s.results
    /\ out' = s.out

\* QProcess.state() != NotRunning, for every process created so far.
Live(ps) == {i \in DOMAIN ps : ps[i].state # "NotRunning"}

\* ---------------------------------------------------------------- settings

\* As is_webp_output without lower().
is_webp_output_case_sensitive(output_path) == EndsWith(output_path, DotWebp)

\* engine.is_webp_output, and the same test inlined in worker.py.
is_webp_output(output_path) == EndsWith(Lower(output_path), DotWebp)

is_webp == is_webp_output(settings.output_file)

\* ----------------------------------------------------------------- signals

\* What a handler emits is kept with the step it was emitted in and, for a
\* weighted progress update, the share num/den of its step it stands for
\* (den = 0 otherwise).
_log(s, msg) ==
    [s EXCEPT !.out = Append(@, [sig |-> "log", msg |-> msg, value |-> 0,
                                 step |-> s.current_step, num |-> 0, den |-> 0])]

\* progress_signal.emit; -1 is the sentinel for an indeterminate progress.
progress_signal(s, value, msg) ==
    [s EXCEPT !.out = Append(@, [sig |-> "progress", msg |-> msg, value |-> value,
                                 step |-> s.current_step, num |-> 0, den |-> 0]),
              !.last_pct = IF value = -1 THEN @ ELSE value]

\* finished_signal.emit; the result remembers what the job still held when it
\* was emitted.
finished_signal(s, success, title, detail, is_error) ==
    [s EXCEPT !.out = Append(@, [sig |-> "finished", msg |-> title, value |-> 0,
                                 step |-> s.current_step, num |-> 0, den |-> 0]),
              !.results = Append(@, [success |-> success, title |-> title,
                                     detail |-> detail, is_error |-> is_error,
                                     tmp_exists |-> s.tmp_exists,
                                     step |-> s.current_step,
                                     live |-> Cardinality(Live(s.procs)),
                                     held |-> s.current_qprocess # 0])]

\* round() of the fraction num/den (den > 0, num >= 0): half to even.
Round(num, den) ==
    LET q == num \div den
        r == num % den
    IN  IF 2 * r < den THEN q
        ELSE IF 2 * r > den THEN q + 1
        ELSE IF q % 2 = 0 THEN q ELSE q + 1

\* As WeightDone, counting the weight of `step` itself too.
WeightDone_inclusive(step) ==
    (IF StepValue("PALETTE") <= StepValue(step) THEN STEP_WEIGHTS("PALETTE") ELSE 0)
    + (IF StepValue("RENDER") <= StepValue(step) THEN STEP_WEIGHTS("RENDER") ELSE 0)
    + (IF StepValue("OPTIMIZE") <= StepValue(step) THEN STEP_WEIGHTS("OPTIMIZE") ELSE 0)

\* Sum of the weights of the steps before `step`.
WeightDone(step) ==
    (IF StepValue("PALETTE") < StepValue(step) THEN STEP_WEIGHTS("PALETTE") ELSE 0)
    + (IF StepValue("RENDER") < StepValue(step) THEN STEP_WEIGHTS("RENDER") ELSE 0)
    + (IF StepValue("OPTIMIZE") < StepValue(step) THEN STEP_WEIGHTS("OPTIMIZE") ELSE 0)

\* As _emit_weighted_progress with int() alone: the fraction is cut off.
_emit_weighted_progress_truncated(s, num, den, message) ==
    LET weight_done == WeightDone(s.current_step)
        weight_this == STEP_WEIGHTS(s.current_step)
        s1 == progress_signal(s, (weight_done * den + weight_this * num) \div den, message)
    IN  [s1 EXCEPT !.out[Len(s1.out)].num = num, !.out[Len(s1.out)].den = den]

\* Worker._emit_weighted_progress with step_progress = 100 * num / den, so
\* that total_progress = weight_done + weight_this * num / den.
_emit_weighted_progress(s, num, den, message) ==
    LET weight_done == WeightDone(s.current_step)
        weight_this == STEP_WEIGHTS(s.current_step)
        s1 == progress_signal(s, Round(weight_done * den + weight_this * num, den), message)
    IN  [s1 EXCEPT !.out[Len(s1.out)].num = num, !.out[Len(s1.out)].den = den]

\* ------------------------------------------------------- termination paths

\* TemporaryDirectory.cleanup() removes the directory and what is in it. The
\* except branch (a file system that refuses the removal) is outside the
\* model: the directory can always be removed.
_cleanup_temp_files(s) ==
    LET s1 == IF s.temp_dir_obj
              THEN _log([s EXCEPT !.tmp_exists = FALSE, !.pal_exists = FALSE],
                        "Temp directory cleaned up.")
              ELSE s
    IN  [s1 EXCEPT !.temp_dir_obj = FALSE, !.pal_file = FALSE]

_handle_error(s, msg) ==
    LET s1 == _log(s, "ERROR")
        s2 == progress_signal(s1, 0, "Error")
        s3 == finished_signal(s2, FALSE, "Error", msg, TRUE)
        s4 == _cleanup_temp_files(s3)
    IN  [s4 EXCEPT !.current_step = "IDLE"]

_handle_cancellation_during_step(s) ==
    LET s1 == _log(s, "Operation cancelled.")
        s2 == progress_signal(s1, 0, "Cancelled.")
        s3 == finished_signal(s2, FALSE, "Cancelled", <<"Operation was cancelled by user.">>,
                              FALSE)
        s4 == _cleanup_temp_files(s3)
    IN  [s4 EXCEPT !.current_step = "IDLE"]

\* As _on_process_error without the branch for a crash after cancellation.
_on_process_error_no_cancel_branch(s, error) ==
    _handle_error(s, <<"QProcess error", error>>)

_on_process_error(s, error) ==
    IF s.is_cancelled /\ error = "Crashed"
    THEN _handle_cancellation_during_step(_log(s, "Process terminated on user request."))
    ELSE _handle_error(s, <<"QProcess error", error>>)

\* --------------------------------------------------------------- processes

\* What QProcess.start() followed by waitForStarted(5000) can do:
\*   "started"  the process runs, waitForStarted returns True;
\*   "failed"   the start fails: QProcess emits errorOccurred(FailedToStart)
\*              to the connected slot, then waitForStarted returns False;
\*   "timeout"  the start is not confirmed within 5 s: waitForStarted returns
\*              False, nothing is emitted and the process is still starting.
StartOutcomes == {"started", "failed", "timeout"}

\* What the environment decides while one handler runs.
Envs == [start : StartOutcomes, tmp_ok : BOOLEAN, probe_fps : {0, 25}]

\* A new QProcess(self) with its program, arguments (the plan) and connections.
\* term and kill: terminate() and kill() were called on it; start records
\* what start() and waitForStarted(5000) did; pal_written that it wrote the
\* palette file; out_time is the last out_time_ms it printed (-1 = none);
\* exit_code, exit_status and cancelled_at_exit record how and when it ended;
\* live_before and results_before the processes alive and the results emitted
\* when it was created.
NewProcess(s, program, plan, log_prefix, on_finished) ==
    [program |-> program, plan |-> plan, log_prefix |-> log_prefix,
     on_finished |-> on_finished, state |-> "NotRunning",
     term |-> FALSE, kill |-> FALSE, start |-> "none", pal_written |-> FALSE,
     out_time |-> -1, frame_seen |-> 0, pending |-> <<>>, line_frame |-> 0,
     exit_code |-> -1, exit_status |-> "none", cancelled_at_exit |-> FALSE,
     live_before |-> Cardinality(Live(s.procs)), results_before |-> Len(s.results)]

\* current_qprocess.start(); waitForStarted(5000) and the start check after it.
StartAndWait(s, log_prefix, e) ==
    LET i == s.current_qprocess
        s1 == [s EXCEPT !.procs[i].start = e.start]
    IN  CASE e.start = "started" ->
                 [s1 EXCEPT !.procs[i].state = "Running"]
          [] e.start = "failed" ->
                 _handle_error(_on_process_error(s1, "FailedToStart"),
                               <<log_prefix, "failed to start">>)
          [] e.start = "timeout" ->
                 _handle_error([s1 EXCEPT !.procs[i].state = "Starting"],
                               <<log_prefix, "failed to start">>)

_run_qprocess(s, program, plan, log_prefix, e) ==
    IF s.is_cancelled
    THEN _handle_cancellation_during_step(s)
    ELSE LET p  == NewProcess(s, program, plan, log_prefix, "_on_process_finished")
             s1 == [s EXCEPT !.procs = Append(@, p),
                             !.current_qprocess = Len(s.procs) + 1]
             s2 == _log(s1, "Cmd")
         IN  StartAndWait(s2, log_prefix, e)

\* ------------------------------------------------------------------- steps

_execute_palette_generation(s, e) ==
    LET s1 == [s EXCEPT !.current_step = "PALETTE"]
        s2 == _log(s1, "--- Generating Palette ---")
        s3 == _emit_weighted_progress(s2, 5, 100,"Generating palette")
        s4 == [s3 EXCEPT !.tmp_created = TRUE]
    IN  IF ~e.tmp_ok
        THEN _handle_error([s4 EXCEPT !.tmp_failed = TRUE],
                           <<"Failed to create temp directory">>)
        ELSE _run_qprocess([s4 EXCEPT !.temp_dir_obj = TRUE, !.tmp_exists = TRUE,
                                      !.pal_file = TRUE],
                           "ffmpeg", "palette", FFMPEG_RENDER, e)

\* As _execute_gif_rendering without the test for the palette file.
_execute_gif_rendering_no_check(s, e) ==
    LET s1 == [s EXCEPT !.current_step = "RENDER"]
        s2 == _log(s1, "--- Rendering GIF ---")
        s3 == [s2 EXCEPT !.ffmpeg_frame_count = 0]
        s4 == IF settings.total_duration # 0
              THEN _emit_weighted_progress(s3, 0, 1, "Rendering GIF: pct")
              ELSE progress_signal(s3, -1, "Rendering GIF")
    IN  _run_qprocess(s4, "ffmpeg", "render", FFMPEG_RENDER, e)

_execute_gif_rendering(s, e) ==
    IF ~s.pal_file \/ ~s.pal_exists
    THEN _handle_error(s, <<"Palette file missing before GIF render.">>)
    ELSE LET s1 == [s EXCEPT !.current_step = "RENDER"]
             s2 == _log(s1, "--- Rendering GIF ---")
             s3 == [s2 EXCEPT !.ffmpeg_frame_count = 0]
             s4 == IF settings.total_duration # 0
                   THEN _emit_weighted_progress(s3, 0, 1, "Rendering GIF: pct")
                   ELSE progress_signal(s3, -1, "Rendering GIF")
         IN  _run_qprocess(s4, "ffmpeg", "render", FFMPEG_RENDER, e)

\* As _finalize_conversion without the call of _cleanup_temp_files.
_finalize_conversion_no_cleanup(s) ==
    LET s1 == [s EXCEPT !.current_step = "FINISHED"]
        s2 == _log(s1, "Generated frames")
        s3 == _log(s2, "GIF saved as")
        s4 == progress_signal(s3, 100, "Done!")
    IN  finished_signal(s4, TRUE, "Success", <<"GIF saved.">>, FALSE)

_finalize_conversion(s) ==
    LET s1 == [s EXCEPT !.current_step = "FINISHED"]
        s2 == _log(s1, "Generated frames")
        s3 == _log(s2, "GIF saved as")
        s4 == progress_signal(s3, 100, "Done!")
        s5 == finished_signal(s4, TRUE, "Success", <<"GIF saved.">>, FALSE)
    IN  _cleanup_temp_files(s5)

RECURSIVE _start_next_step(_, _)

_execute_gif_optimization(s, e) ==
    IF is_webp
    THEN _start_next_step(
             [_log(s, "Skipping GIF optimization step for WebP output.")
                 EXCEPT !.current_step = "FINISHED"], e)
    ELSE LET s1 == [s EXCEPT !.current_step = "OPTIMIZE"]
             s2 == _log(s1, "--- Optimising GIF ---")
             s3 == _emit_weighted_progress(s2, 30, 100,"Optimizing GIF")
         IN  _run_qprocess(s3, "gifsicle", "optimize", GIFSICLE_OPTIMIZE, e)

\* The dispatch table has no entry for Step.IDLE: the lookup raises KeyError,
\* which ends the handler that called it.
_start_next_step(s, e) ==
    IF s.is_cancelled
    THEN _handle_cancellation_during_step(s)
    ELSE CASE s.current_step = "PALETTE"  -> _execute_palette_generation(s, e)
           [] s.current_step = "RENDER"   -> _execute_gif_rendering(s, e)
           [] s.current_step = "OPTIMIZE" -> _execute_gif_optimization(s, e)
           [] s.current_step = "FINISHED" -> _finalize_conversion(s)
           [] OTHER -> [s EXCEPT !.out = Append(@, [sig |-> "raise", msg |-> "KeyError",
                                                    value |-> 0, step |-> s.current_step,
                                                    num |-> 0, den |-> 0])]

\* ------------------------------------------------------------ process exit

ExitCodes == {0, 1}
ExitStatuses == {"NormalExit", "CrashExit"}

CodeStr(exit_code) == IF exit_code = 0 THEN "0" ELSE "1"

\* As ExitFailed, looking at the exit status only.
ExitFailed_status_only(exit_code, exit_status) == exit_status = "CrashExit"

\* The test of _on_process_finished for a failed process.
ExitFailed(exit_code, exit_status) == exit_status = "CrashExit" \/ exit_code # 0

_on_process_finished(s, exit_code, exit_status, e) ==
    LET s1 == [s EXCEPT !.kill_timer = "none"]
    IN  IF s1.current_qprocess = 0
        THEN s1
        ELSE LET log_prefix == s1.procs[s1.current_qprocess].log_prefix
                 s2 == [s1 EXCEPT !.current_qprocess = 0]
             IN  IF s2.is_cancelled
                 THEN _handle_cancellation_during_step(s2)
                 ELSE IF ExitFailed(exit_code, exit_status)
                 THEN _handle_error(s2, <<log_prefix, "exited with code", CodeStr(exit_code)>>)
                 ELSE LET s3 ==
                              CASE s2.current_step = "PALETTE" ->
                                       [_emit_weighted_progress(
                                            _log(s2, "Palette generated"), 1, 1,
                                            "Palette generated.")
                                          EXCEPT !.current_step = "RENDER"]
                                [] s2.current_step = "RENDER" ->
                                       [_emit_weighted_progress(
                                            _log(s2, "GIF rendering complete."), 1, 1,
                                            "GIF rendered.")
                                          EXCEPT !.current_step = "OPTIMIZE"]
                                [] s2.current_step = "OPTIMIZE" ->
                                       [_emit_weighted_progress(
                                            _log(s2, "GIF optimisation complete."), 1, 1,
                                            "GIF optimised.")
                                          EXCEPT !.current_step = "FINISHED"]
                                [] OTHER -> s2
                      IN  _start_next_step(s3, e)

\* The closure connected to the WebP process's finished signal.
on_webp_finished(s, exit_code, exit_status) ==
    _finalize_conversion([s EXCEPT !.current_step = "FINISHED"])

\* ------------------------------------------------------------ stdout lines

Digits == <<"0", "1", "2", "3", "4", "5", "6", "7", "8", "9">>

IsDigit(c) == \E k \in 1..10 : Digits[k] = c

DigitVal(c) == (CHOOSE k \in 1..10 : Digits[k] = c) - 1

\* \s
IsSpace(c) == c \in {" ", "\t", "\r", "\n"}

\* [\r\n]
IsNewline(c) == c \in {"\r", "\n"}

\* re.split(r'[\r\n]+', text): the pieces between runs of CR/LF, the empty
\* piece before a leading run and after a trailing run included.
RECURSIVE SplitFrom(_, _, _, _, _)
SplitFrom(text, k, pieces, cur, in_sep) ==
    IF k > Len(text) THEN Append(pieces, cur)
    ELSE IF IsNewline(text[k])
         THEN IF in_sep THEN SplitFrom(text, k + 1, pieces, cur, TRUE)
              ELSE SplitFrom(text, k + 1, Append(pieces, cur), <<>>, TRUE)
         ELSE SplitFrom(text, k + 1, pieces, Append(cur, text[k]), FALSE)

re_split(text) == SplitFrom(text, 1, <<>>, <<>>, FALSE)

\* text[k..] starts with lit
StartsAt(text, k, lit) ==
    /\ k + Len(lit) - 1 <= Len(text)
    /\ SubSeq(text, k, k + Len(lit) - 1) = lit

\* The first index >= k of text that does not hold a character of the class.
RECURSIVE SkipSpace(_, _)
SkipSpace(text, k) ==
    IF k <= Len(text) /\ IsSpace(text[k]) THEN SkipSpace(text, k + 1) ELSE k

RECURSIVE SkipDigits(_, _)
SkipDigits(text, k) ==
    IF k <= Len(text) /\ IsDigit(text[k]) THEN SkipDigits(text, k + 1) ELSE k

\* int() of the digits text[from..to]
RECURSIVE ToInt(_, _, _)
ToInt(text, from, to) ==
    IF to < from THEN 0
    ELSE 10 * ToInt(text, from, to - 1) + DigitVal(text[to])

FrameLit == <<"f", "r", "a", "m", "e", "=">>
OutTimeLit == <<"o", "u", "t", "_", "t", "i", "m", "e", "_", "m", "s", "=">>

\* Where lit \s* \d+ (spaces allowed only with allow_space) matches at k.
MatchesAt(text, k, lit, allow_space) ==
    /\ StartsAt(text, k, lit)
    /\ LET d == IF allow_space THEN SkipSpace(text, k + Len(lit)) ELSE k + Len(lit)
       IN  d <= Len(text) /\ IsDigit(text[d])

\* re.search(lit \s* (\d+), text): group 1 of the leftmost match as an
\* integer, -1 when there is no match.
Search(text, lit, allow_space) ==
    LET hits == {k \in 1..Len(text) : MatchesAt(text, k, lit, allow_space)}
    IN  IF hits = {} THEN -1
        ELSE LET k == CHOOSE h \in hits : \A g \in hits : h <= g
                 d == IF allow_space THEN SkipSpace(text, k + Len(lit)) ELSE k + Len(lit)
             IN  ToInt(text, d, SkipDigits(text, d) - 1)

\* re.search(r"frame=\s*(\d+)", line)
frame_match(line) == Search(line, FrameLit, TRUE)

\* re.search(r"out_time_ms=(\d+)", line)
time_match(line) == Search(line, OutTimeLit, FALSE)

\* line.strip() is not empty
HasText(line) == \E k \in 1..Len(line) : ~IsSpace(line[k])

Raise(s, what) ==
    [s EXCEPT !.out = Append(@, [sig |-> "raise", msg |-> what, value |-> 0,
                                 step |-> s.current_step, num |-> 0, den |-> 0])]

Raised(s) == Len(s.out) > 0 /\ s.out[Len(s.out)].sig = "raise"

\* total_duration is in seconds, out_time_ms in microseconds.
Million == 1000000

\* As _process_stdout_line without min(100.0, ...) on the elapsed time.
_process_stdout_line_no_clamp(s, line, log_prefix) ==
    IF log_prefix = FFMPEG_RENDER
    THEN LET frame == frame_match(line)
             s1 == IF frame # -1 /\ frame > s.ffmpeg_frame_count
                   THEN [s EXCEPT !.ffmpeg_frame_count = frame]
                   ELSE s
         IN  IF settings.total_duration # 0
             THEN LET us == time_match(line)
                      total == settings.total_duration * Million
                  IN  IF us = -1 THEN s1
                      ELSE _emit_weighted_progress(s1, us, total,"Rendering GIF: pct")
             ELSE IF frame = -1 THEN s1
                  ELSE IF s1.estimated_total_frames = -1
                  THEN Raise(s1, "AttributeError")
                  ELSE IF s1.estimated_total_frames # 0
                  THEN IF s1.ffmpeg_frame_count >= s1.estimated_total_frames
                       THEN _emit_weighted_progress(s1, 1, 1, "Rendering GIF: pct")
                       ELSE _emit_weighted_progress(s1, s1.ffmpeg_frame_count,
                                                    s1.estimated_total_frames,
                                                    "Rendering GIF: pct")
                  ELSE progress_signal(s1, -1, "Rendering GIF: frames")
    ELSE IF log_prefix = GIFSICLE_OPTIMIZE /\ HasText(line)
    THEN _log(s, "gifsicle-optimize: line")
    ELSE s

\* As _process_stdout_line, but the frame number of every line is taken.
_process_stdout_line_last_frame(s, line, log_prefix) ==
    IF log_prefix = FFMPEG_RENDER
    THEN LET frame == frame_match(line)
             s1 == IF frame # -1
                   THEN [s EXCEPT !.ffmpeg_frame_count = frame]
                   ELSE s
         IN  IF settings.total_duration # 0
             THEN LET us == time_match(line)
                      total == settings.total_duration * Million
                  IN  IF us = -1 THEN s1
                      ELSE IF us >= total
                      THEN _emit_weighted_progress(s1, 1, 1, "Rendering GIF: pct")
                      ELSE _emit_weighted_progress(s1, us, total,"Rendering GIF: pct")
             ELSE IF frame = -1 THEN s1
                  ELSE IF s1.estimated_total_frames = -1
                  THEN Raise(s1, "AttributeError")
                  ELSE IF s1.estimated_total_frames # 0
                  THEN IF s1.ffmpeg_frame_count >= s1.estimated_total_frames
                       THEN _emit_weighted_progress(s1, 1, 1, "Rendering GIF: pct")
                       ELSE _emit_weighted_progress(s1, s1.ffmpeg_frame_count,
                                                    s1.estimated_total_frames,
                                                    "Rendering GIF: pct")
                  ELSE progress_signal(s1, -1, "Rendering GIF: frames")
    ELSE IF log_prefix = GIFSICLE_OPTIMIZE /\ HasText(line)
    THEN _log(s, "gifsicle-optimize: line")
    ELSE s

_process_stdout_line(s, line, log_prefix) ==
    IF log_prefix = FFMPEG_RENDER
    THEN LET frame == frame_match(line)
             s1 == IF frame # -1 /\ frame > s.ffmpeg_frame_count
                   THEN [s EXCEPT !.ffmpeg_frame_count = frame]
                   ELSE s
         IN  IF settings.total_duration # 0
             THEN LET us == time_match(line)
                      total == settings.total_duration * Million
                  IN  IF us = -1 THEN s1
                      ELSE IF us >= total
                      THEN _emit_weighted_progress(s1, 1, 1, "Rendering GIF: pct")
                      ELSE _emit_weighted_progress(s1, us, total,"Rendering GIF: pct")
             ELSE IF frame = -1 THEN s1
                  ELSE IF s1.estimated_total_frames = -1
                  THEN Raise(s1, "AttributeError")
                  ELSE IF s1.estimated_total_frames # 0
                  THEN IF s1.ffmpeg_frame_count >= s1.estimated_total_frames
                       THEN _emit_weighted_progress(s1, 1, 1, "Rendering GIF: pct")
                       ELSE _emit_weighted_progress(s1, s1.ffmpeg_frame_count,
                                                    s1.estimated_total_frames,
                                                    "Rendering GIF: pct")
                  ELSE progress_signal(s1, -1, "Rendering GIF: frames")
    ELSE IF log_prefix = GIFSICLE_OPTIMIZE /\ HasText(line)
    THEN _log(s, "gifsicle-optimize: line")
    ELSE s

\* The loop over the pieces of the buffer; an exception leaves the loop and
\* the handler, so the buffer is not cleared. A render process remembers the
\* largest frame number of the lines handled for it.
RECURSIVE ProcessPieces(_, _, _, _)
ProcessPieces(s, pieces, k, log_prefix) ==
    IF k > Len(pieces) THEN [s EXCEPT !.stdout_buffer = <<>>]
    ELSE IF pieces[k] = <<>> THEN ProcessPieces(s, pieces, k + 1, log_prefix)
    ELSE LET i  == s.current_qprocess
             s0 == IF s.procs[i].plan \in {"render", "webp"}
                      /\ frame_match(pieces[k]) > s.procs[i].frame_seen
                   THEN [s EXCEPT !.procs[i].frame_seen = frame_match(pieces[k])]
                   ELSE s
             s1 == _process_stdout_line([s0 EXCEPT !.out = <<>>], pieces[k], log_prefix)
             s2 == [s1 EXCEPT !.out = s.out \o s1.out]
         IN  IF Raised(s1) THEN s2 ELSE ProcessPieces(s2, pieces, k + 1, log_prefix)

\* data is what readAllStandardOutput() returns.
_on_process_ready_read_stdout(s, data) ==
    IF s.current_qprocess = 0 THEN s
    ELSE LET log_prefix == s.procs[s.current_qprocess].log_prefix
             s1 == [s EXCEPT !.stdout_buffer = @ \o data]
         IN  ProcessPieces(s1, re_split(s1.stdout_buffer), 1, log_prefix)

\* ------------------------------------------------------------ cancellation

\* As request_cancellation_slot, but the flag is never set.
request_cancellation_flag_lost(s) ==
    IF s.is_cancelled THEN s
    ELSE LET s1 == _log(s, "Cancellation requested by user.")
             i  == s1.current_qprocess
         IN  IF i # 0 /\ s1.procs[i].state # "NotRunning"
             THEN [_log(s1, "Terminating") EXCEPT !.procs[i].term = TRUE,
                                                  !.kill_timer = "armed"]
             ELSE s1

\* As request_cancellation_slot without the early return.
request_cancellation_no_guard(s) ==
    LET s1 == _log([s EXCEPT !.is_cancelled = TRUE], "Cancellation requested by user.")
        i  == s1.current_qprocess
    IN  IF i # 0 /\ s1.procs[i].state # "NotRunning"
        THEN [_log(s1, "Terminating") EXCEPT !.procs[i].term = TRUE,
                                             !.kill_timer = "armed"]
        ELSE s1

request_cancellation_slot(s) ==
    IF s.is_cancelled THEN s
    ELSE LET s1 == _log([s EXCEPT !.is_cancelled = TRUE], "Cancellation requested by user.")
             i  == s1.current_qprocess
         IN  IF i # 0 /\ s1.procs[i].state # "NotRunning"
             THEN [_log(s1, "Terminating") EXCEPT !.procs[i].term = TRUE,
                                                  !.kill_timer = "armed"]
             ELSE s1

\* As _force_kill_if_running without the test of the process state.
_force_kill_always(s) ==
    LET i == s.current_qprocess
    IN  IF i # 0
        THEN [_log(s, "Process didn't die; sending SIGKILL") EXCEPT !.procs[i].kill = TRUE]
        ELSE s

\* As _force_kill_if_running, but the process is only told about.
_force_kill_only_logged(s) ==
    LET i == s.current_qprocess
    IN  IF i # 0 /\ s.procs[i].state # "NotRunning"
        THEN _log(s, "Process didn't die; sending SIGKILL")
        ELSE s

_force_kill_if_running(s) ==
    LET i == s.current_qprocess
    IN  IF i # 0 /\ s.procs[i].state # "NotRunning"
        THEN [_log(s, "Process didn't die; sending SIGKILL") EXCEPT !.procs[i].kill = TRUE]
        ELSE s

\* ----------------------------------------------------------- job entry point

\* utils.get_video_fps: runs ffprobe with subprocess.run and waits for it.
get_video_fps(s, e) ==
    [s EXCEPT !.probes = Append(@, [live_before |-> Cardinality(Live(s.procs)),
                                    results_before |-> Len(s.results),
                                    fps |-> e.probe_fps])]

_run_webp_conversion(s, e) ==
    LET s1 == progress_signal(s, 0, "Rendering WebP")
        p  == NewProcess(s1, "ffmpeg", "webp", FFMPEG_RENDER, "on_webp_finished")
        s2 == [s1 EXCEPT !.procs = Append(@, p), !.current_qprocess = Len(s1.procs) + 1]
        s3 == _log(s2, "Cmd")
    IN  StartAndWait(s3, FFMPEG_RENDER, e)

run_conversion(s, e) ==
    LET s1 == [s EXCEPT !.is_cancelled = FALSE, !.ffmpeg_frame_count = 0]
    IN  IF is_webp
        THEN _run_webp_conversion(_log(s1, "Starting WebP generation"), e)
        ELSE LET s2 == _log([s1 EXCEPT !.current_step = "PALETTE"], "Starting GIF generation")
                 s3 == _start_next_step(s2, e)
                 s4 == [s3 EXCEPT !.estimated_total_frames = 0]
             IN  IF settings.total_duration = 0 THEN s4
                 ELSE LET s5  == IF settings.fps = -1
                                 THEN _log(get_video_fps(s4, e),
                                           IF e.probe_fps # 0
                                           THEN "Auto-detected source FPS"
                                           ELSE "Could not detect source FPS.")
                                 ELSE s4
                          fps == IF settings.fps = -1 THEN e.probe_fps ELSE settings.fps
                      IN  IF fps = 0 THEN s5
                          ELSE _log([s5 EXCEPT !.estimated_total_frames =
                                                   settings.total_duration * fps],
                                    "Estimated total frames")

\* ------------------------------------------------------------ command lines

\* sep.join(parts)
RECURSIVE Join(_, _)
Join(parts, sep) ==
    IF parts = <<>> THEN ""
    ELSE IF Len(parts) = 1 THEN parts[1]
    ELSE parts[1] \o sep \o Join(Tail(parts), sep)

\* str(path): the characters of the path as one string.
PathStr(path) == Join(path, "")

\* str(x) of a float given in tenths: 15 is 1.5 and prints as "1.5".
FloatStr(tenths) == ToString(tenths \div 10) \o "." \o ToString(tenths % 10)

\* As _add_scale_crop, but two fixed dimensions are scaled without the crop.
_add_scale_crop_no_crop(filters, width, height) ==
    IF width = -1 /\ height = -1 THEN filters
    ELSE IF width = -1 \/ height = -1
    THEN Append(filters, "scale=" \o ToString(width) \o ":" \o ToString(height)
                         \o ":flags=lanczos")
    ELSE Append(filters, "scale=" \o ToString(width) \o ":" \o ToString(height)
                         \o ":flags=lanczos:force_original_aspect_ratio=increase")

\* engine._add_scale_crop; the list is returned instead of changed in place.
_add_scale_crop(filters, width, height) ==
    IF width = -1 /\ height = -1 THEN filters
    ELSE IF width = -1 \/ height = -1
    THEN Append(filters, "scale=" \o ToString(IF width # -1 THEN width ELSE -1)
                         \o ":" \o ToString(IF height # -1 THEN height ELSE -1)
                         \o ":flags=lanczos")
    ELSE filters \o
         << "scale=" \o ToString(width) \o ":" \o ToString(height)
              \o ":flags=lanczos:force_original_aspect_ratio=increase",
            "crop=" \o ToString(width) \o ":" \o ToString(height)
              \o ":(iw-" \o ToString(width) \o ")/2:(ih-" \o ToString(height) \o ")/2" >>

\* engine._base_filters; speed_multiplier is in tenths, 10 is 1.0.
_base_filters(j) ==
    LET f1 == IF j.fps # -1 THEN <<"fps=" \o ToString(j.fps)>> ELSE <<>>
        f2 == IF j.speed_multiplier # 0 /\ j.speed_multiplier # 10
              THEN Append(f1, "setpts=PTS/" \o FloatStr(j.speed_multiplier))
              ELSE f1
    IN  _add_scale_crop(f2, j.width, j.height)

\* ["-progress", "pipe:1"] + args when the duration is known and positive.
WithProgress(j, args) ==
    IF j.total_duration # 0 /\ j.total_duration > 0
    THEN <<"-progress", "pipe:1">> \o args
    ELSE args

CommandPlan(program, args, log_prefix) ==
    [program |-> program, args |-> args, log_prefix |-> log_prefix]

build_palette_plan(j, tools, palette_file) ==
    LET filters == _base_filters(j)
                   \o <<"format=rgb24", "palettegen=stats_mode=" \o j.palette_mode>>
        args == << "-v", "warning",
                   "-i", j.input_file,
                   "-vf", Join(filters, ","),
                   "-update", "1",
                   "-y", palette_file >>
    IN  CommandPlan(tools.ffmpeg, args, FFMPEG_PALETTE)

build_gif_render_plan(j, tools, palette_file) ==
    LET chain == _base_filters(j)
        filter_complex ==
            IF chain # <<>>
            THEN ("[0:v]" \o Join(chain, ",") \o "[x]")
                 \o ";[x][1:v]paletteuse=dither=" \o j.dither_setting
            ELSE "[0:v][1:v]paletteuse=dither=" \o j.dither_setting
        args == << "-v", "warning",
                   "-i", j.input_file,
                   "-i", palette_file,
                   "-filter_complex", filter_complex >>
                \o <<"-loop", IF j.loop THEN "0" ELSE "1">>
                \o <<"-y", PathStr(j.output_file)>>
    IN  CommandPlan(tools.ffmpeg, WithProgress(j, args), FFMPEG_RENDER)

build_gifsicle_plan(j, tools) ==
    LET args == << "-O3",
                   IF j.loop THEN "--loopcount=0" ELSE "--no-loopcount",
                   PathStr(j.output_file),
                   "-o", PathStr(j.output_file) >>
    IN  CommandPlan(tools.gifsicle, args, GIFSICLE_OPTIMIZE)

\* As build_webp_plan, but the quality flags are passed for lossless jobs too.
build_webp_plan_always_quality(j, tools) ==
    LET filters == Append(_base_filters(j), "format=rgba")
        args == << "-v", "warning",
                   "-i", j.input_file,
                   "-vf", Join(filters, ",") >>
                \o (IF j.webp_lossless THEN <<"-lossless", "1">> ELSE <<>>)
                \o << "-q:v", ToString(j.webp_quality),
                      "-compression_level", ToString(j.webp_compression) >>
                \o <<"-loop", IF j.loop THEN "0" ELSE "1">>
                \o <<"-y", PathStr(j.output_file)>>
    IN  CommandPlan(tools.ffmpeg, WithProgress(j, args), FFMPEG_RENDER)

build_webp_plan(j, tools) ==
    LET filters == Append(_base_filters(j), "format=rgba")
        args == << "-v", "warning",
                   "-i", j.input_file,
                   "-vf", Join(filters, ",") >>
                \o (IF j.webp_lossless
                    THEN <<"-lossless", "1">>
                    ELSE << "-q:v", ToString(j.webp_quality),
                            "-compression_level", ToString(j.webp_compression) >>)
                \o <<"-loop", IF j.loop THEN "0" ELSE "1">>
                \o <<"-y", PathStr(j.output_file)>>
    IN  CommandPlan(tools.ffmpeg, WithProgress(j, args), FFMPEG_RENDER)

\* As parse_ffmpeg_progress_line, but the elapsed time is only looked for in
\* a text that holds a frame number.
parse_ffmpeg_progress_line_frame_first(text) ==
    IF frame_match(text) = -1 THEN <<-1, -1>> ELSE <<frame_match(text), time_match(text)>>

\* engine.parse_ffmpeg_progress_line; -1 stands for None.
parse_ffmpeg_progress_line(text) == <<frame_match(text), time_match(text)>>

\* As estimate_total_frames, but the product goes to the nearest whole number.
estimate_total_frames_rounded(duration, fps) ==
    IF duration = -1 \/ duration = 0 \/ fps = -1 \/ fps = 0 THEN -1
    ELSE Round(duration * fps, 1000)

\* engine.estimate_total_frames. duration is in tenths of a second, fps in
\* hundredths of a frame per second, -1 stands for None; int() cuts the
\* product, which is not negative, down to a whole number.
estimate_total_frames(duration, fps) ==
    IF duration = -1 \/ duration = 0 \/ fps = -1 \/ fps = 0 THEN -1
    ELSE (duration * fps) \div 1000

\* The filters every ffmpeg command of the Worker starts from (worker.py
\* builds the list anew in each step): the scale filter is always there.
WorkerFilters(j) ==
    LET f1 == IF j.fps # -1 THEN <<"fps=" \o ToString(j.fps)>> ELSE <<>>
        f2 == IF j.speed_multiplier # 0 /\ j.speed_multiplier # 10
              THEN Append(f1, "setpts=PTS/" \o FloatStr(j.speed_multiplier))
              ELSE f1
    IN  Append(f2, "scale=" \o ToString(j.width) \o ":" \o ToString(j.height)
                   \o ":flags=lanczos")

\* The command _execute_palette_generation hands to _run_qprocess.
palette_generation_command(j, tools, palette_file) ==
    LET filters == WorkerFilters(j)
                   \o <<"format=rgb24", "palettegen=stats_mode=" \o j.palette_mode>>
        args == << "-v", "warning",
                   "-i", j.input_file,
                   "-vf", Join(filters, ","),
                   "-frames:v", "1", "-update", "1",
                   "-y", palette_file >>
    IN  CommandPlan(tools.ffmpeg, args, FFMPEG_RENDER)

\* The command _execute_gif_rendering hands to _run_qprocess.
gif_rendering_command(j, tools, palette_file) ==
    LET chain == WorkerFilters(j)
        first_chain == Join(chain, ",") \o "[x]"
        filter_complex == first_chain \o ";[x][1:v]paletteuse=dither=" \o j.dither_setting
        args == << "-v", "warning",
                   "-i", j.input_file,
                   "-i", palette_file,
                   "-filter_complex", filter_complex >>
                \o (IF j.loop THEN <<"-loop", "0">> ELSE <<"-loop", "1">>)
                \o (IF is_webp_output(j.output_file) THEN <<"-loop", "0">> ELSE <<>>)
                \o <<"-y", PathStr(j.output_file)>>
    IN  CommandPlan(tools.ffmpeg, WithProgress(j, args), FFMPEG_RENDER)

\* The command _execute_gif_optimization hands to _run_qprocess.
gif_optimization_command(j, tools) ==
    LET args == << "-O3",
                   IF j.loop THEN "--loopcount=0" ELSE "--no-loopcount",
                   PathStr(j.output_file),
                   "-o", PathStr(j.output_file) >>
    IN  CommandPlan(tools.gifsicle, args, GIFSICLE_OPTIMIZE)

\* The command _run_webp_conversion starts.
webp_conversion_command(j, tools) ==
    LET filters == Append(WorkerFilters(j), "format=rgba")
        args == << "-v", "warning",
                   "-i", j.input_file,
                   "-vf", Join(filters, ","),
                   "-loop", "0" >>
                \o (IF j.webp_lossless
                    THEN <<"-lossless", "1">>
                    ELSE << "-q:v", ToString(j.webp_quality),
                            "-compression_level", ToString(j.webp_compression) >>)
                \o (IF j.loop THEN <<"-loop", "0">> ELSE <<"-loop", "1">>)
                \o <<"-y", PathStr(j.output_file)>>
    IN  CommandPlan(tools.ffmpeg, WithProgress(j, args), FFMPEG_RENDER)

\* ------------------------------------------------------------------ inputs

\* Output paths of the jobs checked.
OutputFiles ==
    { <<"a", ".", "g", "i", "f">>,
      <<"a", ".", "w", "e", "b", "p">>,
      <<"a", ".", "W", "e", "b", "P">>,
      <<"w", "e", "b", "p">>,
      <<"a", ".", "w", "e", "b", "p", ".", "G", "I", "F">> }

\* The paths of the jobs checked with one duration and frame rate only.
MoreOutputFiles ==
    { <<"a", ".", "W", "e", "b", "P">>,
      <<"w", "e", "b", "p">>,
      <<"a", ".", "w", "e", "b", "p", ".", "G", "I", "F">> }

\* settings.total_duration in seconds, 0 for None.
Durations == {0, 2}

\* settings.fps, -1 to keep the source's.
FpsSettings == {-1, 10}

\* The jobs checked.
Jobs ==
    [output_file : OutputFiles \ MoreOutputFiles, total_duration : Durations,
     fps : FpsSettings]
    \cup [output_file : MoreOutputFiles, total_duration : {0}, fps : {10}]

\* Data one readyReadStandardOutput can deliver.
Chunks ==
    { <<"f", "r", "a", "m", "e", "=", "1", "\n">>,
      <<"f", "r", "a", "m", "e", "=", "1">>,
      <<"2", "\n">>,
      <<"f", "r", "a", "m", "e", "=", " ", "3", "\r",
        "o", "u", "t", "_", "t", "i", "m", "e", "_", "m", "s", "=",
        "1", "2", "5", "0", "0", "0", "0", "\n">>,
      <<"o", "u", "t", "_", "t", "i", "m", "e", "_", "m", "s", "=",
        "3", "0", "0", "0", "0", "0", "0", "\n">>,
      <<"x", "\n">> }

\* The executables, and the palette file inside the temp directory.
Tools == [ffmpeg |-> "ffmpeg", ffprobe |-> "ffprobe", gifsicle |-> "gifsicle"]
PaletteFile == "palette.png"

\* Width and height settings: -1 keeps the source's, otherwise pixels.
Dims == {-1, 320, 480}

\* The jobs commands are built for; the job of test_engine.py is one of them.
\* speed_multiplier and total_duration are in tenths, total_duration 0 is None.
EngineJobs ==
    [input_file : {"input.mp4"},
     output_file : { <<"o", "u", "t", ".", "g", "i", "f">>,
                     <<"o", "u", "t", ".", "w", "e", "b", "p">> },
     fps : {-1, 15}, width : Dims, height : Dims,
     dither_setting : {"floyd_steinberg"},
     speed_multiplier : {10, 15},
     palette_mode : {"diff"},
     webp_quality : {90}, webp_compression : {4},
     webp_lossless : BOOLEAN, loop : BOOLEAN,
     total_duration : {0, 125}]

\* _job() of test_engine.py
TestJob ==
    [input_file |-> "input.mp4", output_file |-> <<"o", "u", "t", ".", "g", "i", "f">>,
     fps |-> 15, width |-> 480, height |-> -1, dither_setting |-> "floyd_steinberg",
     speed_multiplier |-> 10, palette_mode |-> "diff", webp_quality |-> 90,
     webp_compression |-> 4, webp_lossless |-> FALSE, loop |-> TRUE,
     total_duration |-> 125]

\* The decimal digits of n >= 0.
RECURSIVE DigitsOf(_)
DigitsOf(n) ==
    IF n < 10 THEN <<Digits[n + 1]>>
    ELSE Append(DigitsOf(n \div 10), Digits[(n % 10) + 1])

\* A progress text written from its fields: the frame field with the white
\* space after its marker, the elapsed-time field, either of them absent
\* when the number is -1, in either order after some other field.
ProgressText(prefix, frame, spaces, between, out_time_ms, time_first) ==
    LET f == IF frame = -1 THEN <<>> ELSE FrameLit \o spaces \o DigitsOf(frame)
        o == IF out_time_ms = -1 THEN <<>> ELSE OutTimeLit \o DigitsOf(out_time_ms)
    IN  prefix \o (IF time_first THEN o \o between \o f ELSE f \o between \o o)

Bitrate == <<"b", "i", "t", "r", "a", "t", "e", "=", "1", "0", "0", "0">>

\* The texts parsed, each with the fields it was written from.
ProgressLines ==
    { [text |-> ProgressText(prefix, frame, spaces, between, out_time_ms, time_first),
       frame |-> frame, out_time_ms |-> out_time_ms] :
         prefix \in {<<>>, Bitrate \o <<"\n">>},
         frame \in {-1, 0, 12},
         spaces \in {<<>>, <<" ", " ">>, <<"\n">>},
         between \in {<<"\n">>, <<" ">>},
         out_time_ms \in {-1, 0, 123456},
         time_first \in BOOLEAN }

\* Durations in tenths of a second and frame rates in hundredths of a frame
\* per second, -1 for None.
Measurements ==
    [duration : {-1, 0, 1, 25, 100, 125, 36000},
     fps : {-1, 0, 50, 1500, 2400, 2997, 6000}]

NoLine == [text |-> <<>>, frame |-> -1, out_time_ms |-> -1]
NoMeasurement == [duration |-> -1, fps |-> -1]
\* Nothing was called: each kind of return value is at its empty value.
NothingReturned ==
    [fn |-> "", filters |-> <<>>, plan |-> CommandPlan("", <<>>, ""),
     parsed |-> <<-1, -1>>, estimate |-> -1]

\* ------------------------------------------------------------------ actions

\* Worker.__init__
WorkerNew ==
    /\ _is_cancelled = FALSE
    /\ _kill_timer = "none"
    /\ ffmpeg_frame_count = 0
    /\ current_qprocess = 0
    /\ temp_dir_obj = FALSE
    /\ pal_file = FALSE
    /\ current_step = "IDLE"
    /\ stdout_buffer = <<>>
    /\ estimated_total_frames = -1
    /\ procs = <<>>
    /\ probes = <<>>
    /\ tmp_exists = FALSE
    /\ pal_exists = FALSE
    /\ tmp_created = FALSE
    /\ tmp_failed = FALSE
    /\ last_pct = -1
    /\ started = FALSE
    /\ cancel_calls = 0
    /\ results = <<>>
    /\ out = <<>>

\* ProcessRunner.__init__
RunnerNew ==
    /\ _process = 0
    /\ _stdout_buffer = <<>>
    /\ _stderr_buffer = <<>>
    /\ _log_prefix = ""
    /\ _last_error = ""
    /\ qprocs = <<>>
    /\ rx_stdout = <<>>
    /\ rx_stderr = <<>>
    /\ stdout_line = <<>>
    /\ stderr_line = <<>>
    /\ emitted = <<>>

\* No function of the engine is being examined.
EngineNew ==
    /\ job = TestJob
    /\ progress_line = NoLine
    /\ measured = NoMeasurement
    /\ returned = NothingReturned

\* A worker constructed for a job taken from the inputs; the runner is idle.
Init ==
    /\ settings \in Jobs
    /\ observed = FALSE
    /\ WorkerNew
    /\ RunnerNew
    /\ EngineNew

\* The thread's started signal (or the CLI's single-shot timer) calls run_conversion.
RunConversion ==
    /\ ~started
    /\ started' = TRUE
    /\ \E e \in Envs : Commit(run_conversion(State, e))
    /\ UNCHANGED <<settings, observed, cancel_calls>>
    /\ UNCHANGED <<runnerVars, engineVars>>

\* The UI's cancellation_request_signal is delivered to the worker's event loop.
RequestCancellation ==
    /\ started
    /\ cancel_calls < MaxCancelCalls
    /\ cancel_calls' = cancel_calls + 1
    /\ Commit(request_cancellation_slot(State))
    /\ UNCHANGED <<settings, observed, started>>
    /\ UNCHANGED <<runnerVars, engineVars>>

\* The grace timer's timeout; it is single-shot.
KillTimerTimeout ==
    /\ _kill_timer = "armed"
    /\ Commit(_force_kill_if_running([State EXCEPT !.kill_timer = "fired"]))
    /\ UNCHANGED <<settings, observed, started, cancel_calls>>
    /\ UNCHANGED <<runnerVars, engineVars>>

\* Process i ends. QProcess emits errorOccurred(Crashed) before finished when
\* the exit status is CrashExit. A palette process may have written its file.
ProcessFinished(i) ==
    /\ procs[i].state = "Running"
    /\ \E exit_code \in ExitCodes, exit_status \in ExitStatuses, start \in StartOutcomes,
          pal_written \in IF procs[i].plan = "palette" /\ tmp_exists
                          THEN BOOLEAN ELSE {FALSE} :
          LET e  == [start |-> start, tmp_ok |-> TRUE, probe_fps |-> 0]
              s0 == [State EXCEPT !.procs[i].state = "NotRunning",
                                  !.procs[i].exit_code = exit_code,
                                  !.procs[i].exit_status = exit_status,
                                  !.procs[i].cancelled_at_exit = _is_cancelled,
                                  !.procs[i].pal_written = pal_written,
                                  !.pal_exists = IF procs[i].plan = "palette"
                                                 THEN pal_written
                                                 ELSE @]
              s1 == IF exit_status = "CrashExit" THEN _on_process_error(s0, "Crashed") ELSE s0
          IN  Commit(IF procs[i].on_finished = "on_webp_finished"
                     THEN on_webp_finished(s1, exit_code, exit_status)
                     ELSE _on_process_finished(s1, exit_code, exit_status, e))
    /\ UNCHANGED <<settings, observed, started, cancel_calls>>
    /\ UNCHANGED <<runnerVars, engineVars>>

\* A process whose start was not confirmed in time starts after all, or
\* reports that it failed to start.
StartupNotified(i) ==
    /\ procs[i].state = "Starting"
    /\ \/ Commit([State EXCEPT !.procs[i].state = "Running"])
       \/ Commit(_on_process_error([State EXCEPT !.procs[i].state = "NotRunning"],
                                   "FailedToStart"))
    /\ UNCHANGED <<settings, observed, started, cancel_calls>>
    /\ UNCHANGED <<runnerVars, engineVars>>

\* QProcess reports an error on a running process that does not end it.
ProcessErrorOccurred(i) ==
    /\ procs[i].state = "Running"
    /\ Len(results) < MaxResults
    /\ Commit(_on_process_error(State, "ReadError"))
    /\ UNCHANGED <<settings, observed, started, cancel_calls>>
    /\ UNCHANGED <<runnerVars, engineVars>>

\* The out_time_ms values a piece of output carries, in order.
OutTimes(data) ==
    LET pieces == re_split(data)
        timed  == SelectSeq(pieces, LAMBDA piece : time_match(piece) # -1)
    IN  [k \in 1..Len(timed) |-> time_match(timed[k])]

ChunkOutTimes == [data \in Chunks |-> OutTimes(data)]

\* The encoder's elapsed time never runs backwards: the values are in
\* non-decreasing order and none is below `from`.
ElapsedTimeAdvances(from, times) ==
    /\ \A k \in DOMAIN times : from <= times[k]
    /\ \A j, k \in DOMAIN times : j < k => times[j] <= times[k]

\* What the render process p has written once `data` is added: the text after
\* its last CR/LF, and the largest frame number of the lines it has ended.
Written(p, data) ==
    LET parts  == re_split(p.pending \o data)
        frames == {frame_match(parts[k]) : k \in 1..(Len(parts) - 1)} \cup {p.line_frame}
    IN  [p EXCEPT !.pending = parts[Len(parts)],
                  !.line_frame = CHOOSE f \in frames : \A g \in frames : g <= f]

\* readyReadStandardOutput of process i with new data. The elapsed time is
\* followed for the jobs that look at it (those with a known duration).
ReadyReadStdout(i) ==
    /\ procs[i].state = "Running"
    /\ Len(stdout_buffer) <= MaxBuf
    /\ \E data \in Chunks :
          /\ ElapsedTimeAdvances(procs[i].out_time, ChunkOutTimes[data])
          /\ LET times == IF settings.total_duration # 0 THEN ChunkOutTimes[data] ELSE <<>>
                 read  == observed /\ current_qprocess = i
                          /\ procs[i].plan \in {"render", "webp"}
                 p     == IF read THEN Written(procs[i], data) ELSE procs[i]
                 s0    == [State EXCEPT !.procs[i] =
                              IF times = <<>> THEN p
                              ELSE [p EXCEPT !.out_time = times[Len(times)]]]
             IN  /\ Len(p.pending) <= MaxPending
                 /\ Commit(_on_process_ready_read_stdout(
                               s0, IF current_qprocess = i THEN data ELSE <<>>))
    /\ UNCHANGED <<settings, observed, started, cancel_calls>>
    /\ UNCHANGED <<runnerVars, engineVars>>

Next ==
    \/ RunConversion
    \/ RequestCancellation
    \/ KillTimerTimeout
    \/ \E i \in DOMAIN procs : ProcessFinished(i)
    \/ \E i \in DOMAIN procs : StartupNotified(i)
    \/ \E i \in DOMAIN procs : ProcessErrorOccurred(i)
    \/ \E i \in DOMAIN procs : ReadyReadStdout(i)

Spec == Init /\ [][Next]_vars

\* The same worker, with what its render process writes recorded beside what
\* the worker reads.
StreamInit ==
    /\ settings \in Jobs
    /\ observed = TRUE
    /\ WorkerNew
    /\ RunnerNew
    /\ EngineNew

StreamSpec == StreamInit /\ [][Next]_vars

\* The commands a job launches; each at most once.
Plans == {"palette", "render", "optimize", "webp"}

\* A process of the plan is running and is one that ends by itself: it was
\* not asked to terminate, or it has been killed since. ProcessFinished is
\* enabled for it.
CanExit(plan) ==
    \E i \in DOMAIN procs :
        /\ procs[i].plan = plan
        /\ procs[i].state = "Running"
        /\ procs[i].term => procs[i].kill

\* The worker under the scheduling its event loop gives it: a started timer
\* fires, and no process that ends by itself runs for ever. A process that
\* was asked to terminate and not killed may ignore the request for ever.
LiveSpec ==
    /\ Init
    /\ [][Next]_vars
    /\ WF_vars(KillTimerTimeout)
    /\ \A plan \in Plans : []<>~CanExit(plan)

\* ============================================================ ProcessRunner

\* The state a handler of the runner starts from, nothing emitted yet.
RunnerState ==
    [process |-> _process, stdout_buffer |-> _stdout_buffer,
     stderr_buffer |-> _stderr_buffer, log_prefix |-> _log_prefix,
     last_error |-> _last_error, qprocs |-> qprocs,
     rx_stdout |-> rx_stdout, rx_stderr |-> rx_stderr,
     stdout_line |-> stdout_line, stderr_line |-> stderr_line, emitted |-> <<>>]

\* The state a handler of the runner leaves behind.
RunnerCommit(r) ==
    /\ _process' = r.process
    /\ _stdout_buffer' = r.stdout_buffer
    /\ _stderr_buffer' = r.stderr_buffer
    /\ _log_prefix' = r.log_prefix
    /\ _last_error' = r.last_error
    /\ qprocs' = r.qprocs
    /\ rx_stdout' = r.rx_stdout
    /\ rx_stderr' = r.rx_stderr
    /\ stdout_line' = r.stdout_line
    /\ stderr_line' = r.stderr_line
    /\ emitted' = r.emitted

\* A signal of the runner, or the value a call returns (sig = "return").
Emit(r, sig, a, b, tag) ==
    [r EXCEPT !.emitted = Append(@, [sig |-> sig, a |-> a, b |-> b, tag |-> tag])]

is_running(r) == r.process # 0 /\ r.qprocs[r.process].state # "NotRunning"

_on_error(r, error) == Emit(r, "error", error, "", r.log_prefix)

\* bytes.decode(errors="replace") of one piece of data. The bytes are ASCII
\* characters and the two bytes C3 A9 of the UTF-8 form of U+00E9; a byte
\* that is not part of a complete character decodes to U+FFFD.
RECURSIVE DecodeFrom(_, _, _)
DecodeFrom(bytes, k, text) ==
    IF k > Len(bytes) THEN text
    ELSE IF bytes[k] = "C3"
         THEN IF k < Len(bytes) /\ bytes[k + 1] = "A9"
              THEN DecodeFrom(bytes, k + 2, Append(text, "U+00E9"))
              ELSE DecodeFrom(bytes, k + 1, Append(text, "U+FFFD"))
         ELSE IF bytes[k] = "A9"
         THEN DecodeFrom(bytes, k + 1, Append(text, "U+FFFD"))
         ELSE DecodeFrom(bytes, k + 1, Append(text, bytes[k]))

Decode(bytes) == DecodeFrom(bytes, 1, <<>>)

\* The emission loop over lines_to_process.
RECURSIVE EmitLines(_, _, _, _)
EmitLines(r, sig, lines, k) ==
    IF k > Len(lines) THEN r
    ELSE IF lines[k] = <<>> THEN EmitLines(r, sig, lines, k + 1)
    ELSE LET hit == [line |-> lines[k], tag |-> r.log_prefix]
             r1  == Emit(r, sig, lines[k], "", r.log_prefix)
             r2  == IF sig = "stdout_line"
                    THEN [r1 EXCEPT !.stdout_line = Append(@, hit)]
                    ELSE [r1 EXCEPT !.stderr_line = Append(@, hit)]
         IN  EmitLines(r2, sig, lines, k + 1)

\* What is kept of a buffer: the piece after the last CR/LF, nothing when the
\* buffer ends in one.
KeptOf(buffer, parts) ==
    IF buffer # <<>> /\ ~IsNewline(buffer[Len(buffer)]) THEN parts[Len(parts)] ELSE <<>>

\* data is what readAllStandardOutput().data() returns.
_on_ready_read_stdout(r, data) ==
    IF r.process = 0 THEN r
    ELSE LET buffer == r.stdout_buffer \o Decode(data)
             parts  == re_split(buffer)
             kept   == KeptOf(buffer, parts)
             lines_to_process == IF kept # <<>> THEN SubSeq(parts, 1, Len(parts) - 1)
                                 ELSE parts
         IN  EmitLines([r EXCEPT !.stdout_buffer = kept, !.rx_stdout = @ \o data],
                       "stdout_line", lines_to_process, 1)

\* data is what readAllStandardError().data() returns.
_on_ready_read_stderr(r, data) ==
    IF r.process = 0 THEN r
    ELSE LET buffer == r.stderr_buffer \o Decode(data)
             parts  == re_split(buffer)
             kept   == KeptOf(buffer, parts)
             lines_to_process == IF kept # <<>> THEN SubSeq(parts, 1, Len(parts) - 1)
                                 ELSE parts
         IN  EmitLines([r EXCEPT !.stderr_buffer = kept, !.rx_stderr = @ \o data],
                       "stderr_line", lines_to_process, 1)

_on_finished(r, exit_code, exit_status) ==
    LET log_prefix == r.log_prefix
        r1 == IF r.process # 0
              THEN [r EXCEPT !.qprocs[r.process].deleted = TRUE, !.process = 0]
              ELSE r
    IN  Emit(r1, "finished", exit_code, exit_status, log_prefix)

\* A new QProcess(self) of the runner with its four connections. tag is the
\* log_prefix of the start call that created it; deleted: deleteLater() was
\* called on it.
NewRunnerProcess(program, log_prefix) ==
    [program |-> program, tag |-> log_prefix, state |-> "NotRunning",
     deleted |-> FALSE, term |-> FALSE, kill |-> FALSE]

\* As start without the test of is_running.
start_no_guard(r, program, log_prefix, outcome) ==
    LET i  == Len(r.qprocs) + 1
        r1 == [r EXCEPT !.stdout_buffer = <<>>, !.stderr_buffer = <<>>,
                        !.log_prefix = log_prefix,
                        !.rx_stdout = <<>>, !.rx_stderr = <<>>,
                        !.stdout_line = <<>>, !.stderr_line = <<>>,
                        !.qprocs = Append(@, NewRunnerProcess(program, log_prefix)),
                        !.process = i]
    IN  CASE outcome = "started" ->
                 Emit([r1 EXCEPT !.qprocs[i].state = "Running"], "return", TRUE, "", "")
          [] outcome = "failed" ->
                 Emit([_on_error(r1, "FailedToStart")
                          EXCEPT !.last_error = "errorString", !.qprocs[i].deleted = TRUE,
                                 !.process = 0],
                      "return", FALSE, "", "")
          [] outcome = "timeout" ->
                 Emit([r1 EXCEPT !.qprocs[i].state = "Starting",
                                 !.last_error = "errorString", !.qprocs[i].deleted = TRUE,
                                 !.process = 0],
                      "return", FALSE, "", "")

\* As start, keeping the process whose start was not confirmed.
start_keeps_failed_process(r, program, log_prefix, outcome) ==
    IF is_running(r)
    THEN Emit([r EXCEPT !.last_error = "Process already running"], "return", FALSE, "", "")
    ELSE LET i  == Len(r.qprocs) + 1
             r1 == [r EXCEPT !.stdout_buffer = <<>>, !.stderr_buffer = <<>>,
                             !.log_prefix = log_prefix,
                             !.rx_stdout = <<>>, !.rx_stderr = <<>>,
                             !.stdout_line = <<>>, !.stderr_line = <<>>,
                             !.qprocs = Append(@, NewRunnerProcess(program, log_prefix)),
                             !.process = i]
         IN  CASE outcome = "started" ->
                      Emit([r1 EXCEPT !.qprocs[i].state = "Running"], "return", TRUE, "", "")
               [] outcome = "failed" ->
                      Emit([_on_error(r1, "FailedToStart")
                               EXCEPT !.last_error = "errorString"],
                           "return", FALSE, "", "")
               [] outcome = "timeout" ->
                      Emit([r1 EXCEPT !.qprocs[i].state = "Starting",
                                      !.last_error = "errorString"],
                           "return", FALSE, "", "")

\* As start without the clearing of the two buffers.
start_keeps_buffers(r, program, log_prefix, outcome) ==
    IF is_running(r)
    THEN Emit([r EXCEPT !.last_error = "Process already running"], "return", FALSE, "", "")
    ELSE LET i  == Len(r.qprocs) + 1
             r1 == [r EXCEPT !.log_prefix = log_prefix,
                             !.rx_stdout = <<>>, !.rx_stderr = <<>>,
                             !.stdout_line = <<>>, !.stderr_line = <<>>,
                             !.qprocs = Append(@, NewRunnerProcess(program, log_prefix)),
                             !.process = i]
         IN  CASE outcome = "started" ->
                      Emit([r1 EXCEPT !.qprocs[i].state = "Running"], "return", TRUE, "", "")
               [] outcome = "failed" ->
                      Emit([_on_error(r1, "FailedToStart")
                               EXCEPT !.last_error = "errorString",
                                      !.qprocs[i].deleted = TRUE, !.process = 0],
                           "return", FALSE, "", "")
               [] outcome = "timeout" ->
                      Emit([r1 EXCEPT !.qprocs[i].state = "Starting",
                                      !.last_error = "errorString",
                                      !.qprocs[i].deleted = TRUE, !.process = 0],
                           "return", FALSE, "", "")

\* ProcessRunner.start; outcome is what QProcess.start() and
\* waitForStarted(5000) do (see StartOutcomes).
start(r, program, log_prefix, outcome) ==
    IF is_running(r)
    THEN Emit([r EXCEPT !.last_error = "Process already running"], "return", FALSE, "", "")
    ELSE LET i  == Len(r.qprocs) + 1
             r1 == [r EXCEPT !.stdout_buffer = <<>>, !.stderr_buffer = <<>>,
                             !.log_prefix = log_prefix,
                             !.rx_stdout = <<>>, !.rx_stderr = <<>>,
                             !.stdout_line = <<>>, !.stderr_line = <<>>,
                             !.qprocs = Append(@, NewRunnerProcess(program, log_prefix)),
                             !.process = i]
         IN  CASE outcome = "started" ->
                      Emit([r1 EXCEPT !.qprocs[i].state = "Running"], "return", TRUE, "", "")
               [] outcome = "failed" ->
                      Emit([_on_error(r1, "FailedToStart")
                               EXCEPT !.last_error = "errorString",
                                      !.qprocs[i].deleted = TRUE, !.process = 0],
                           "return", FALSE, "", "")
               [] outcome = "timeout" ->
                      Emit([r1 EXCEPT !.qprocs[i].state = "Starting",
                                      !.last_error = "errorString",
                                      !.qprocs[i].deleted = TRUE, !.process = 0],
                           "return", FALSE, "", "")

terminate(r) ==
    IF is_running(r) THEN [r EXCEPT !.qprocs[r.process].term = TRUE] ELSE r

kill(r) ==
    IF is_running(r) THEN [r EXCEPT !.qprocs[r.process].kill = TRUE] ELSE r

\* ------------------------------------------------------------ runner inputs

\* The log prefixes given to start.
Tags == {FFMPEG_RENDER, GIFSICLE_OPTIMIZE}

\* The bytes of a stream: ASCII characters, and the two bytes of U+00E9.
Bytes == {"a", "\n", "\r", "C3", "A9"}

\* Data one readyRead can deliver: one byte or two.
ByteChunks == [1..1 -> Bytes] \cup [1..2 -> Bytes]

\* Data one readyRead delivers while the runner goes from process to process.
FewChunks == { <<"a">>, <<"\n">> }

\* ----------------------------------------------------------- runner actions

\* A caller calls start; the runner creates at most max processes.
CallStart(max) ==
    /\ Len(qprocs) < max
    /\ \E log_prefix \in Tags, outcome \in StartOutcomes :
          RunnerCommit(start(RunnerState, "ffmpeg", log_prefix, outcome))
    /\ UNCHANGED <<workerVars, engineVars>>

\* A caller calls terminate.
CallTerminate ==
    /\ RunnerCommit(terminate(RunnerState))
    /\ UNCHANGED <<workerVars, engineVars>>

\* A caller calls kill.
CallKill ==
    /\ RunnerCommit(kill(RunnerState))
    /\ UNCHANGED <<workerVars, engineVars>>

\* readyReadStandardOutput of the runner's process with new data, one of
\* chunks, while the process has delivered less than max bytes.
RunnerReadyReadStdout(chunks, max) ==
    /\ is_running(RunnerState)
    /\ qprocs[_process].state = "Running"
    /\ \E data \in chunks :
          /\ Len(rx_stdout) + Len(rx_stderr) + Len(data) <= max
          /\ RunnerCommit(_on_ready_read_stdout(RunnerState, data))
    /\ UNCHANGED <<workerVars, engineVars>>

\* readyReadStandardError of the runner's process with new data.
RunnerReadyReadStderr(chunks, max) ==
    /\ is_running(RunnerState)
    /\ qprocs[_process].state = "Running"
    /\ \E data \in chunks :
          /\ Len(rx_stdout) + Len(rx_stderr) + Len(data) <= max
          /\ RunnerCommit(_on_ready_read_stderr(RunnerState, data))
    /\ UNCHANGED <<workerVars, engineVars>>

\* Process i of the runner ends, whether the runner still holds it or not:
\* its connections stay until the object is destroyed. QProcess emits
\* errorOccurred(Crashed) before finished when the exit status is CrashExit.
RunnerProcessFinished(i) ==
    /\ qprocs[i].state = "Running"
    /\ \E exit_code \in ExitCodes, exit_status \in ExitStatuses :
          LET r0 == [RunnerState EXCEPT !.qprocs[i].state = "NotRunning"]
              r1 == IF exit_status = "CrashExit" THEN _on_error(r0, "Crashed") ELSE r0
          IN  RunnerCommit(_on_finished(r1, exit_code, exit_status))
    /\ UNCHANGED <<workerVars, engineVars>>

\* A process whose start was not confirmed in time starts after all, or
\* reports that it failed to start.
RunnerStartupNotified(i) ==
    /\ qprocs[i].state = "Starting"
    /\ \/ RunnerCommit([RunnerState EXCEPT !.qprocs[i].state = "Running"])
       \/ RunnerCommit(_on_error([RunnerState EXCEPT !.qprocs[i].state = "NotRunning"],
                                 "FailedToStart"))
    /\ UNCHANGED <<workerVars, engineVars>>

\* The deferred delete of a process that has not ended: the destructor of
\* QProcess kills it and waits for its end; the object's signals for that
\* end may or may not still reach the runner's slots.
RunnerProcessDestroyed(i) ==
    /\ qprocs[i].deleted
    /\ qprocs[i].state # "NotRunning"
    /\ LET r0 == [RunnerState EXCEPT !.qprocs[i].state = "NotRunning",
                                     !.qprocs[i].kill = TRUE]
       IN  \/ RunnerCommit(r0)
           \/ RunnerCommit(_on_finished(_on_error(r0, "Crashed"), 1, "CrashExit"))
    /\ UNCHANGED <<workerVars, engineVars>>

\* QProcess reports an error on a running process that does not end it.
RunnerProcessErrorOccurred(i) ==
    /\ qprocs[i].state = "Running"
    /\ RunnerCommit(_on_error(RunnerState, "ReadError"))
    /\ UNCHANGED <<workerVars, engineVars>>

\* A runner on its own: the worker of this module does not use it.
RunnerInit ==
    /\ settings = [output_file |-> <<"a", ".", "g", "i", "f">>, total_duration |-> 0,
                   fps |-> 10]
    /\ observed = FALSE
    /\ WorkerNew
    /\ RunnerNew
    /\ EngineNew

RunnerNext ==
    \/ CallStart(MaxStarts)
    \/ CallTerminate
    \/ CallKill
    \/ RunnerReadyReadStdout(FewChunks, MaxRunBytes)
    \/ RunnerReadyReadStderr(FewChunks, MaxRunBytes)
    \/ \E i \in DOMAIN qprocs : RunnerProcessFinished(i)
    \/ \E i \in DOMAIN qprocs : RunnerStartupNotified(i)
    \/ \E i \in DOMAIN qprocs : RunnerProcessDestroyed(i)
    \/ \E i \in DOMAIN qprocs : RunnerProcessErrorOccurred(i)

RunnerSpec == RunnerInit /\ [][RunnerNext]_vars

\* One process of a runner, its output cut into chunks in every way.
LinesNext ==
    \/ CallStart(1)
    \/ RunnerReadyReadStdout(ByteChunks, MaxBytes)
    \/ RunnerReadyReadStderr(ByteChunks, MaxBytes)
    \/ \E i \in DOMAIN qprocs : RunnerProcessFinished(i)

LinesSpec == RunnerInit /\ [][LinesNext]_vars

\* =================================================================== engine

\* What `returned` holds after a call: the function named and the value it
\* returned, of the kind named.
Return(fn, kind, value) == [NothingReturned EXCEPT !.fn = fn, ![kind] = value]

BaseFilters ==
    /\ returned' = Return("_base_filters", "filters", _base_filters(job))
    /\ UNCHANGED <<job, progress_line, measured, workerVars, runnerVars>>

BuildPalettePlan ==
    /\ returned' = Return("build_palette_plan", "plan",
                          build_palette_plan(job, Tools, PaletteFile))
    /\ UNCHANGED <<job, progress_line, measured, workerVars, runnerVars>>

BuildGifRenderPlan ==
    /\ returned' = Return("build_gif_render_plan", "plan",
                          build_gif_render_plan(job, Tools, PaletteFile))
    /\ UNCHANGED <<job, progress_line, measured, workerVars, runnerVars>>

BuildGifsiclePlan ==
    /\ returned' = Return("build_gifsicle_plan", "plan", build_gifsicle_plan(job, Tools))
    /\ UNCHANGED <<job, progress_line, measured, workerVars, runnerVars>>

BuildWebpPlan ==
    /\ returned' = Return("build_webp_plan", "plan", build_webp_plan(job, Tools))
    /\ UNCHANGED <<job, progress_line, measured, workerVars, runnerVars>>

ParseFfmpegProgressLine ==
    /\ returned' = Return("parse_ffmpeg_progress_line", "parsed",
                          parse_ffmpeg_progress_line(progress_line.text))
    /\ UNCHANGED <<job, progress_line, measured, workerVars, runnerVars>>

EstimateTotalFrames ==
    /\ returned' = Return("estimate_total_frames", "estimate",
                          estimate_total_frames(measured.duration, measured.fps))
    /\ UNCHANGED <<job, progress_line, measured, workerVars, runnerVars>>

\* run_conversion takes a job with a .webp output to _run_webp_conversion and
\* every other job through the three steps.
PaletteGenerationCommand ==
    /\ ~is_webp_output(job.output_file)
    /\ returned' = Return("_execute_palette_generation", "plan",
                          palette_generation_command(job, Tools, PaletteFile))
    /\ UNCHANGED <<job, progress_line, measured, workerVars, runnerVars>>

GifRenderingCommand ==
    /\ ~is_webp_output(job.output_file)
    /\ returned' = Return("_execute_gif_rendering", "plan",
                          gif_rendering_command(job, Tools, PaletteFile))
    /\ UNCHANGED <<job, progress_line, measured, workerVars, runnerVars>>

GifOptimizationCommand ==
    /\ ~is_webp_output(job.output_file)
    /\ returned' = Return("_execute_gif_optimization", "plan",
                          gif_optimization_command(job, Tools))
    /\ UNCHANGED <<job, progress_line, measured, workerVars, runnerVars>>

WebpConversionCommand ==
    /\ is_webp_output(job.output_file)
    /\ returned' = Return("_run_webp_conversion", "plan",
                          webp_conversion_command(job, Tools))
    /\ UNCHANGED <<job, progress_line, measured, workerVars, runnerVars>>

\* One of: a job, a progress text, a measurement; nothing was called yet.
EngineInit ==
    /\ settings = [output_file |-> <<"a", ".", "g", "i", "f">>, total_duration |-> 0,
                   fps |-> 10]
    /\ observed = FALSE
    /\ WorkerNew
    /\ RunnerNew
    /\ returned = NothingReturned
    /\ \/ job \in EngineJobs /\ progress_line = NoLine /\ measured = NoMeasurement
       \/ job = TestJob /\ progress_line \in ProgressLines /\ measured = NoMeasurement
       \/ job = TestJob /\ progress_line = NoLine /\ measured \in Measurements

EngineNext ==
    \/ BaseFilters
    \/ BuildPalettePlan
    \/ BuildGifRenderPlan
    \/ BuildGifsiclePlan
    \/ BuildWebpPlan
    \/ ParseFfmpegProgressLine
    \/ EstimateTotalFrames
    \/ PaletteGenerationCommand
    \/ GifRenderingCommand
    \/ GifOptimizationCommand
    \/ WebpConversionCommand

EngineSpec == EngineInit /\ [][EngineNext]_vars

\* ================================================================== claims

IsCancelled(r) == r.title = "Cancelled" /\ ~r.success /\ ~r.is_error
IsError(r)     == r.title = "Error" /\ ~r.success /\ r.is_error
IsSuccess(r)   == r.title = "Success" /\ r.success

\* The results emitted by the step from the unprimed to the primed state.
NewResults == {k \in DOMAIN results' : k > Len(results)}

\* C1: the worker emits finished_signal at most once per job, whatever start
\* failures, error events, exits and cancellation requests occur.
C1_ResultEmittedOnce == Len(results) <= 1

\* C2: once a process has exited with CrashExit or a non-zero code while no
\* cancellation was requested, an Error result was emitted, no later process
\* was launched and no Success result was emitted.
C2_FailedExitGivesError ==
    \A i \in DOMAIN procs :
        (/\ procs[i].state = "NotRunning"
         /\ procs[i].exit_status # "none"
         /\ ExitFailed(procs[i].exit_code, procs[i].exit_status)
         /\ ~procs[i].cancelled_at_exit)
        => /\ \E k \in DOMAIN results : IsError(results[k])
           /\ \A k \in DOMAIN results : ~IsSuccess(results[k])
           /\ Len(procs) = i

C4_TwoPhaseCancellation ==
    [][\A i \in DOMAIN procs :
          /\ (procs'[i].kill /\ ~procs[i].kill)
                => /\ procs[i].term /\ _is_cancelled
                   /\ procs[i].state # "NotRunning"
                   /\ _kill_timer = "armed" /\ _kill_timer' = "fired"
          /\ (procs'[i].term /\ ~procs[i].term)
                => cancel_calls' # cancel_calls /\ _kill_timer' = "armed"
          /\ (procs[i].state = "NotRunning" /\ ~procs[i].kill) => ~procs'[i].kill]_vars

\* The grace timer fired on a process that ignored terminate().
C4_Witness ==
    \E i \in DOMAIN procs : procs[i].term /\ procs[i].kill /\ _kill_timer = "fired"

\* C5: once a cancellation request was made, no process is launched any more:
\* when the process of a step of a GIF job has ended, so that no process is
\* active and the next step would start, nothing is launched and the result
\* emitted is Cancelled, even if that process exited normally with code 0.
C5_NoLaunchAfterCancel ==
    [][cancel_calls > 0 =>
          /\ Len(procs') = Len(procs) /\ Len(probes') = Len(probes)
          /\ \A i \in DOMAIN procs :
                (/\ procs[i].on_finished = "_on_process_finished"
                 /\ procs[i].state = "Running" /\ procs'[i].state = "NotRunning")
                => /\ NewResults # {}
                   /\ \A k \in NewResults : IsCancelled(results'[k])]_vars

\* The palette process exited normally with code 0 after a cancellation
\* request: the render step was due, nothing was launched, the job is Cancelled.
C5_Witness ==
    /\ cancel_calls > 0
    /\ Len(procs) = 1
    /\ procs[1].plan = "palette" /\ procs[1].state = "NotRunning"
    /\ procs[1].exit_code = 0 /\ procs[1].exit_status = "NormalExit"
    /\ results # <<>> /\ IsCancelled(results[Len(results)])

\* C6: a cancellation request made while the flag is already set changes no
\* state of the worker or of its processes and emits nothing.
C6_SecondCancelIsNoOp ==
    [][(cancel_calls' # cancel_calls /\ _is_cancelled) =>
          /\ UNCHANGED <<_is_cancelled, _kill_timer, ffmpeg_frame_count, current_qprocess,
                         temp_dir_obj, pal_file, current_step, stdout_buffer,
                         estimated_total_frames, procs, probes, tmp_exists, pal_exists,
                         tmp_created, tmp_failed, last_pct, results>>
          /\ out' = <<>>]_vars

\* A second request arrived while the first one's terminate() was in flight.
C6_Witness ==
    /\ cancel_calls = 2
    /\ \E i \in DOMAIN procs : procs[i].term /\ procs[i].state = "Running"

GifPlans == <<"palette", "render", "optimize">>

\* C8: in a GIF job the processes launched are palette, render, optimize in
\* that order, each at most once, each after the one before it exited
\* normally with code 0; Success is emitted only after the optimize process
\* exited normally with code 0.
C8_GifStepOrder ==
    ~is_webp =>
        /\ Len(procs) <= 3
        /\ \A i \in DOMAIN procs : procs[i].plan = GifPlans[i]
        /\ \A i \in DOMAIN procs :
              i > 1 => /\ procs[i - 1].state = "NotRunning"
                       /\ procs[i - 1].exit_code = 0
                       /\ procs[i - 1].exit_status = "NormalExit"
        /\ (\E k \in DOMAIN results : IsSuccess(results[k]))
              => /\ Len(procs) = 3
                 /\ procs[3].state = "NotRunning"
                 /\ procs[3].exit_code = 0
                 /\ procs[3].exit_status = "NormalExit"

\* A GIF job ran its three steps and reported Success.
C8_Witness ==
    /\ ~is_webp
    /\ Len(procs) = 3
    /\ \E k \in DOMAIN results : IsSuccess(results[k])

UpperDotWebp == <<".", "W", "E", "B", "P">>

\* The path ends in .webp, each letter in either case.
EndsInWebpAnyCase(path) ==
    /\ Len(path) >= 5
    /\ \A k \in 1..5 : path[Len(path) - 5 + k] \in {DotWebp[k], UpperDotWebp[k]}

\* C9: a started job whose output path ends in .webp in any letter case has
\* launched exactly one process, the WebP render, and never asked for a temp
\* directory; any other job runs the GIF pipeline: it asks for the temp
\* directory, its first process is the palette process, and it never
\* launches the WebP render.
C9_PipelineBySuffix ==
    started =>
        IF EndsInWebpAnyCase(settings.output_file)
        THEN /\ Len(procs) = 1 /\ procs[1].plan = "webp"
             /\ ~tmp_created /\ ~tmp_exists
             /\ probes = <<>>
        ELSE /\ tmp_created
             /\ procs # <<>> => procs[1].plan = "palette"
             /\ \A i \in DOMAIN procs : procs[i].plan # "webp"

\* A job with a mixed-case .WebP output ran its only process to the end.
C9_Witness ==
    /\ started
    /\ settings.output_file = <<"a", ".", "W", "e", "b", "P">>
    /\ Len(procs) = 1 /\ procs[1].state = "NotRunning"
    /\ results # <<>>

\* C10: in a GIF job whose render process exited normally with code 0 and
\* whose frame count is 1, no optimize process is launched.
C10_SingleFrameSkipsOptimize ==
    (/\ ~is_webp
     /\ ffmpeg_frame_count = 1
     /\ \E i \in DOMAIN procs :
           /\ procs[i].plan = "render" /\ procs[i].state = "NotRunning"
           /\ procs[i].exit_code = 0 /\ procs[i].exit_status = "NormalExit"
           /\ ~procs[i].cancelled_at_exit)
    => \A i \in DOMAIN procs : procs[i].plan # "optimize"

C12_ReleasedBeforeError ==
    \A k \in DOMAIN results : IsError(results[k]) => ~results[k].tmp_exists

\* The log tag that names the step a plan belongs to.
StepTag(plan) ==
    CASE plan = "palette"  -> FFMPEG_PALETTE
      [] plan = "render"   -> FFMPEG_RENDER
      [] plan = "webp"     -> FFMPEG_RENDER
      [] plan = "optimize" -> GIFSICLE_OPTIMIZE

\* waitForStarted(5000) returned False for process i.
StartNotConfirmed(i) == procs[i].start \in {"failed", "timeout"}

\* C13: when the start of a step's process is not confirmed within the wait,
\* an Error result is emitted that says which step failed to start, no later
\* process is launched, and the temp directory is released.
C13_StartFailureIsFatal ==
    \A i \in DOMAIN procs :
        StartNotConfirmed(i) =>
            /\ \E k \in DOMAIN results :
                   /\ IsError(results[k])
                   /\ results[k].detail = <<StepTag(procs[i].plan), "failed to start">>
            /\ Len(procs) = i
            /\ ~tmp_exists /\ ~temp_dir_obj

\* C14: when the creation of the temp directory failed, an Error result was
\* emitted and the job never launches an external process: no encoder, no
\* optimizer and no frame-rate probe.
C14_NoProcessAfterTempDirFailure ==
    tmp_failed =>
        /\ \E k \in DOMAIN results : IsError(results[k])
        /\ procs = <<>>
        /\ probes = <<>>

PaletteMissing == <<"Palette file missing before GIF render.">>

\* The palette process i of a running GIF job exits normally with code 0 in
\* this step, without a cancellation request and without having written the
\* palette file: the render step is about to start and finds no palette.
RenderDueWithoutPalette(i) ==
    /\ procs[i].plan = "palette"
    /\ procs[i].state = "Running" /\ procs'[i].state = "NotRunning"
    /\ procs'[i].exit_code = 0 /\ procs'[i].exit_status = "NormalExit"
    /\ ~procs'[i].pal_written
    /\ ~_is_cancelled
    /\ current_step = "PALETTE" /\ current_qprocess = i

\* C15 as stated: when the palette file is missing as the render step is
\* about to start, no render process is launched, the job ends with the
\* Error result, and the worker's step is not RENDER, also not while the
\* error is reported.
C15_MissingPaletteNeverRender ==
    \A k \in DOMAIN results :
        results[k].detail = PaletteMissing =>
            /\ IsError(results[k])
            /\ \A i \in DOMAIN procs : procs[i].plan # "render"
            /\ results[k].step # "RENDER"

\* C15 amended: when the palette file is missing as the render step is about
\* to start, no render process is launched, then or later, and the job ends
\* with exactly one result, the Error "Palette file missing before GIF
\* render."; the step is RENDER while that error is reported (it was advanced
\* on the palette's normal exit) and IDLE once the handler has returned.
C15_MissingPaletteIsFatal ==
    /\ [](\A k \in DOMAIN results :
             results[k].detail = PaletteMissing =>
                 /\ IsError(results[k])
                 /\ results[k].step = "RENDER"
                 /\ Len(procs) = 1 /\ procs[1].plan = "palette"
                 /\ Len(results) = 1
                 /\ current_step = "IDLE")
    /\ [][\A i \in DOMAIN procs :
             RenderDueWithoutPalette(i) =>
                 /\ Len(procs') = Len(procs)
                 /\ Len(results') = Len(results) + 1
                 /\ results'[Len(results')].detail = PaletteMissing]_vars

\* The palette process exited normally with code 0 and left no palette file;
\* the job reported the missing palette.
C15_Witness ==
    /\ Len(procs) = 1 /\ procs[1].plan = "palette" /\ procs[1].state = "NotRunning"
    /\ procs[1].exit_code = 0 /\ procs[1].exit_status = "NormalExit"
    /\ ~procs[1].pal_written /\ ~procs[1].cancelled_at_exit
    /\ results # <<>> /\ results[Len(results)].detail = PaletteMissing

\* The percentages among the signals `o`, in order, the sentinel left out.
Percentages(o) ==
    LET p == SelectSeq(o, LAMBDA m : m.sig = "progress" /\ m.value # -1)
    IN  [k \in 1..Len(p) |-> p[k].value]

NonDecreasingFrom(from, p) ==
    /\ p # <<>> => from <= p[1]
    /\ \A k \in 1..(Len(p) - 1) : p[k] <= p[k + 1]

C20_ProgressInRange ==
    \A k \in DOMAIN out : out[k].sig = "progress" => out[k].value \in (0..100) \cup {-1}

\* The render process of a GIF job reported more elapsed time than the known
\* duration and the update emitted for it is the render step's full share.
C20_Witness ==
    /\ ~is_webp /\ current_step = "RENDER"
    /\ \E i \in DOMAIN procs :
           /\ procs[i].plan = "render" /\ procs[i].state = "Running"
           /\ procs[i].out_time > settings.total_duration * Million
    /\ \E k \in DOMAIN out : out[k].sig = "progress" /\ out[k].value = 80

\* ---------------------------------------------------- claims on the runner

\* The call of start that this step made returned.
StartReturned == emitted' # <<>> /\ emitted'[Len(emitted')].sig = "return"

IsRunningNext == _process' # 0 /\ qprocs'[_process'].state # "NotRunning"

\* C16: a start called while the runner's process is running returns False
\* and changes neither the process held, nor the processes, nor the active
\* tag, nor the two buffers and what was read and emitted so far; the active
\* tag is always the one given to the start that launched the process held,
\* and every line and exit event emitted while a process is held carries it.
C16_StartWhileRunningRejected ==
    /\ [][(is_running(RunnerState) /\ StartReturned) =>
             /\ emitted' = <<[sig |-> "return", a |-> FALSE, b |-> "", tag |-> ""]>>
             /\ _last_error' = "Process already running"
             /\ UNCHANGED <<_process, qprocs, _log_prefix, _stdout_buffer, _stderr_buffer,
                            rx_stdout, rx_stderr, stdout_line, stderr_line>>]_vars
    /\ [](_process # 0 => _log_prefix = qprocs[_process].tag)
    /\ [][_process # 0 =>
             \A k \in DOMAIN emitted' :
                 emitted'[k].sig \in {"stdout_line", "stderr_line", "finished"}
                     => emitted'[k].tag = qprocs[_process].tag]_vars

\* A start was rejected while the process held was running with a partial
\* line in a buffer.
C16_Witness ==
    /\ is_running(RunnerState)
    /\ _stdout_buffer # <<>>
    /\ _last_error = "Process already running"
    /\ emitted = <<[sig |-> "return", a |-> FALSE, b |-> "", tag |-> ""]>>

\* C17: when an exit event is emitted, and when a start that was not rejected
\* as already running returns False, the runner holds no process and
\* is_running is false; and a start called while is_running is false is
\* never rejected: it creates a process.
C17_RunnerReusable ==
    /\ [][((\E k \in DOMAIN emitted' : emitted'[k].sig = "finished")
            \/ (~is_running(RunnerState) /\ StartReturned
                   /\ emitted'[Len(emitted')].a = FALSE))
             => _process' = 0 /\ ~IsRunningNext]_vars
    /\ [][(~is_running(RunnerState) /\ StartReturned)
             => /\ Len(qprocs') = Len(qprocs) + 1
                /\ _log_prefix' = qprocs'[Len(qprocs')].tag]_vars

\* The first process exited or failed to start, and the next start was
\* accepted and its process runs.
C17_Witness ==
    /\ Len(qprocs) = 2
    /\ qprocs[1].state = "NotRunning" /\ qprocs[1].deleted
    /\ _process = 2 /\ qprocs[2].state = "Running"
    /\ emitted = <<[sig |-> "return", a |-> TRUE, b |-> "", tag |-> ""]>>

\* The lines of a signal history.
LineTexts(lines) == [k \in DOMAIN lines |-> lines[k].line]

\* The non-empty segments of text that a CR/LF follows, in order.
TerminatedSegments(text) ==
    LET parts == re_split(text)
    IN  SelectSeq(SubSeq(parts, 1, Len(parts) - 1), LAMBDA part : part # <<>>)

\* C18: whatever way the bytes of a stream arrive in chunks, the lines
\* emitted for the stream are, in order, the non-empty segments of the text
\* those bytes decode to that a CR/LF follows: each once, none cut or joined
\* at a chunk boundary, none empty, no unterminated tail; the other stream's
\* bytes have no part in it.
C18_LinesIndependentOfChunks ==
    /\ LineTexts(stdout_line) = TerminatedSegments(Decode(rx_stdout))
    /\ LineTexts(stderr_line) = TerminatedSegments(Decode(rx_stderr))

\* The whole percentage of the fraction num/den of a step, clamped at 100.
StepLocalPercent(num, den) == IF num >= den THEN 100 ELSE Round(100 * num, den)

\* The progress updates of `o` that report a share of the render done.
RenderUpdates(o) == SelectSeq(o, LAMBDA m : m.sig = "progress" /\ m.msg = "Rendering GIF: pct")

\* C21: in a WebP job with a known duration, the percentage emitted for an
\* elapsed-time report of the render process is the step-local percentage
\* itself (elapsed / duration * 100, clamped at 100, rounded); no step weight
\* is applied.
C21_WebpPercentIsStepLocal ==
    (is_webp /\ settings.total_duration # 0) =>
        \A i \in DOMAIN procs :
            (current_qprocess = i /\ procs[i].out_time # -1 /\ RenderUpdates(out) # <<>>) =>
                RenderUpdates(out)[Len(RenderUpdates(out))].value =
                    StepLocalPercent(procs[i].out_time, settings.total_duration * Million)

\* Every scale filter and every crop filter that can be written for the
\* dimensions of the inputs.
ScaleFilters ==
    { "scale=" \o ToString(w) \o ":" \o ToString(h) \o ":flags=lanczos" \o more :
        w \in Dims, h \in Dims, more \in {"", ":force_original_aspect_ratio=increase"} }

CropFilters ==
    { "crop=" \o ToString(w) \o ":" \o ToString(h)
        \o ":(iw-" \o ToString(x) \o ")/2:(ih-" \o ToString(y) \o ")/2" :
        w \in Dims, h \in Dims, x \in Dims, y \in Dims }

\* The scale/crop stage the policy gives for a width and a height.
ScaleCropPolicy(width, height) ==
    IF width = -1 /\ height = -1 THEN <<>>
    ELSE IF (width = -1) # (height = -1)
    THEN << "scale=" \o ToString(width) \o ":" \o ToString(height) \o ":flags=lanczos" >>
    ELSE << "scale=" \o ToString(width) \o ":" \o ToString(height)
              \o ":flags=lanczos:force_original_aspect_ratio=increase",
            "crop=" \o ToString(width) \o ":" \o ToString(height)
              \o ":(iw-" \o ToString(width) \o ")/2:(ih-" \o ToString(height) \o ")/2" >>

\* `chain` ends with the policy's scale/crop stage for the job, holds no
\* other scale or crop filter, and holds fps=<f> before that stage when the
\* job sets a frame rate.
FollowsScaleCropPolicy(chain, j) ==
    LET stage == ScaleCropPolicy(j.width, j.height)
        n     == Len(chain) - Len(stage)
    IN  /\ n >= 0
        /\ SubSeq(chain, n + 1, Len(chain)) = stage
        /\ \A k \in 1..n : chain[k] \notin ScaleFilters \cup CropFilters
        /\ j.fps # -1 => \E k \in 1..n : chain[k] = "fps=" \o ToString(j.fps)

ArgAfter(args, flag) == args[(CHOOSE k \in 1..Len(args) : args[k] = flag) + 1]

\* How often `flag` occurs in a command line.
Occurrences(args, flag) == Cardinality({k \in 1..Len(args) : args[k] = flag})

\* The calls that give the command of a GIF render.
GifRenders == {"build_gif_render_plan", "_execute_gif_rendering"}

\* The job asks for no frame rate, no size and no change of speed.
AllDefaults(j) == j.fps = -1 /\ j.width = -1 /\ j.height = -1 /\ j.speed_multiplier = 10

\* The filter graphs that feed `chain`, as the one stage labelled [x], and
\* the palette input into paletteuse.
LabelledGraphs(chain, j) ==
    { input \o Join(chain, ",") \o "[x];[x][1:v]paletteuse=dither=" \o j.dither_setting :
        input \in {"", "[0:v]"} }

\* C23: when fps, width and height are all -1 (and the speed is 1.0) the
\* filter graph of a GIF render is exactly [0:v][1:v]paletteuse=dither=<dither>,
\* reading both inputs with no labelled first stage; in every other case the
\* filter chain is one stage labelled [x] that is fed, with the palette
\* input, into paletteuse.
C23_RenderFilterGraph ==
    returned.fn \in GifRenders =>
        LET graph == ArgAfter(returned.plan.args, "-filter_complex")
        IN  IF AllDefaults(job)
            THEN graph = "[0:v][1:v]paletteuse=dither=" \o job.dither_setting
            ELSE graph \in LabelledGraphs(_base_filters(job), job)
                           \cup LabelledGraphs(WorkerFilters(job), job)

\* The calls that give the command of a WebP render.
WebpRenders == {"build_webp_plan", "_run_webp_conversion"}

\* C24: in the plan of every WebP job the lossless flag and the quality and
\* compression flags exclude each other: lossless gives -lossless and
\* neither -q:v nor -compression_level; not lossless gives both -q:v and
\* -compression_level and no -lossless.
C24_LosslessExcludesQuality ==
    (returned.fn \in WebpRenders /\ is_webp_output(job.output_file)) =>
        LET args == returned.plan.args
        IN  IF job.webp_lossless
            THEN /\ Occurrences(args, "-lossless") = 1
                 /\ ArgAfter(args, "-lossless") = "1"
                 /\ Occurrences(args, "-q:v") = 0
                 /\ Occurrences(args, "-compression_level") = 0
            ELSE /\ Occurrences(args, "-lossless") = 0
                 /\ Occurrences(args, "-q:v") = 1
                 /\ ArgAfter(args, "-q:v") = ToString(job.webp_quality)
                 /\ Occurrences(args, "-compression_level") = 1
                 /\ ArgAfter(args, "-compression_level") = ToString(job.webp_compression)

\* The plan of a lossless WebP job was built: it carries -lossless 1 and no
\* quality flag.
C24_Witness ==
    /\ is_webp_output(job.output_file) /\ job.webp_lossless
    /\ returned.fn = "build_webp_plan"
    /\ ArgAfter(returned.plan.args, "-lossless") = "1"
    /\ Occurrences(returned.plan.args, "-q:v") = 0

\* C25: every render command that is built or launched, for a GIF and for a
\* WebP, carries -loop exactly once, with 0 when the job's loop flag is set
\* and 1 when it is not.
C25_LoopFlagOnce ==
    returned.fn \in GifRenders \cup WebpRenders =>
        /\ Occurrences(returned.plan.args, "-loop") = 1
        /\ ArgAfter(returned.plan.args, "-loop") = IF job.loop THEN "0" ELSE "1"

\* C26: parse_ffmpeg_progress_line returns the integer that follows frame=
\* (white space may stand between) and the integer that follows
\* out_time_ms=, each when its marker occurs in the text and whether or not
\* the other does, and absent for a field whose marker does not occur; a
\* text with neither marker gives both absent.
C26_ParseProgressLine ==
    returned.fn = "parse_ffmpeg_progress_line" =>
        returned.parsed = <<progress_line.frame, progress_line.out_time_ms>>

\* The text of test_engine.py, "frame=  12\nout_time_ms=123456", was parsed
\* into 12 and 123456.
C26_Witness ==
    /\ returned.fn = "parse_ffmpeg_progress_line"
    /\ progress_line.text = FrameLit \o <<" ", " ", "1", "2", "\n">>
                            \o OutTimeLit \o <<"1", "2", "3", "4", "5", "6">>
    /\ returned.parsed = <<12, 123456>>

\* n is the integer part of duration x fps (tenths of a second times
\* hundredths of a frame per second).
IsIntegerPart(n, duration, fps) == n * 1000 <= duration * fps /\ duration * fps < (n + 1) * 1000

\* C27 as stated: estimate_total_frames returns the integer part of
\* duration x fps whenever both inputs are given, and unknown whenever the
\* duration or the fps is missing.
C27_EstimateWheneverKnown ==
    returned.fn = "estimate_total_frames" =>
        IF measured.duration = -1 \/ measured.fps = -1
        THEN returned.estimate = -1
        ELSE IsIntegerPart(returned.estimate, measured.duration, measured.fps)

\* C27: estimate_total_frames returns the integer part of duration x fps
\* when both inputs are given and neither is zero (10.0 s at 24.0 fps gives
\* 240), and unknown whenever the duration or the fps is missing or zero.
C27_EstimateOfNonZero ==
    returned.fn = "estimate_total_frames" =>
        IF measured.duration \in {-1, 0} \/ measured.fps \in {-1, 0}
        THEN returned.estimate = -1
        ELSE IsIntegerPart(returned.estimate, measured.duration, measured.fps)

\* 10.0 s at 24.0 frames per second were estimated at 240 frames.
C27_Witness ==
    /\ returned.fn = "estimate_total_frames"
    /\ measured = [duration |-> 100, fps |-> 2400]
    /\ returned.estimate = 240

\* The sum of the weights of the steps strictly before `step`, and the
\* weight of `step`, with the weights PALETTE 10, RENDER 70, OPTIMIZE 20.
WeightBefore(step) ==
    CASE step = "RENDER" -> 10
      [] step = "OPTIMIZE" -> 10 + 70
      [] step = "FINISHED" -> 10 + 70 + 20
      [] OTHER -> 0

WeightOf(step) ==
    CASE step = "PALETTE" -> 10
      [] step = "RENDER" -> 70
      [] step = "OPTIMIZE" -> 20
      [] OTHER -> 0

\* value is a whole number nearest to before + weight * num / den.
IsNearest(value, before, weight, num, den) ==
    LET diff == value * den - (before * den + weight * num)
    IN  2 * diff <= den /\ -2 * diff <= den

\* C28: in a GIF job every weighted progress update is (the sum of the
\* weights of all steps strictly before the current step) + (the current
\* step's weight x the step-local percentage / 100), rounded to the nearest
\* integer, with the weights PALETTE 10, RENDER 70, OPTIMIZE 20.
C28_WeightedProgress ==
    ~is_webp =>
        \A k \in DOMAIN out :
            out[k].den # 0 =>
                /\ out[k].sig = "progress"
                /\ IsNearest(out[k].value, WeightBefore(out[k].step), WeightOf(out[k].step),
                             out[k].num, out[k].den)

\* The render step of a GIF job reported 1.25 s of 2 s, 62.5 % of the step,
\* and the update carries 54, the nearest to 10 + 70 * 0.625 = 53.75.
C28_Witness ==
    /\ ~is_webp /\ settings.total_duration = 2
    /\ \E k \in DOMAIN out :
          /\ out[k].step = "RENDER" /\ out[k].num = 1250000 /\ out[k].den = 2 * Million
          /\ out[k].value = 54

\* C29: while the render process is active, the recorded frame count is the
\* largest frame number of the lines handled for that process since it was
\* started, 0 if none carried one; so no step of the process makes the
\* count smaller, and a line with a lower or equal number leaves it alone.
ActiveRender(i) ==
    /\ current_qprocess = i
    /\ procs[i].plan \in {"render", "webp"}
    /\ procs[i].state = "Running"

CountIsLargestSeen ==
    \A i \in DOMAIN procs : ActiveRender(i) => ffmpeg_frame_count = procs[i].frame_seen

CountNeverDecreases ==
    \A i \in DOMAIN procs :
        ActiveRender(i) /\ ActiveRender(i)' => ffmpeg_frame_count' >= ffmpeg_frame_count

C29_FrameCountIsRunningMaximum ==
    []CountIsLargestSeen /\ [][CountNeverDecreases]_vars

\* The render process of a GIF job is active and the largest frame number
\* its lines have carried, 3, is the recorded count.
C29_Witness ==
    \E i \in DOMAIN procs :
        /\ ActiveRender(i)
        /\ procs[i].plan = "render"
        /\ procs[i].frame_seen = 3
        /\ ffmpeg_frame_count = 3

\* The progress updates of `o` that the scan of a stdout line emits.
ScanUpdates(o) ==
    SelectSeq(o, LAMBDA m : m.sig = "progress"
                            /\ m.msg \in {"Rendering GIF: pct", "Rendering GIF: frames"})

\* The PALETTE or the OPTIMIZE process is the running current process.
ActiveOther(i) ==
    /\ current_qprocess = i
    /\ procs[i].plan \in {"palette", "optimize"}
    /\ procs[i].state = "Running"

\* C30: stdout is scanned for frame numbers and elapsed times only for the
\* RENDER process: while the PALETTE or the OPTIMIZE process stays the
\* running current process, no step changes the frame count and no step
\* emits a render progress update.
C30_OnlyRenderIsScanned ==
    [][\A i \in DOMAIN procs :
          ActiveOther(i) /\ ActiveOther(i)' =>
              /\ ffmpeg_frame_count' = ffmpeg_frame_count
              /\ ScanUpdates(out') = <<>>]_vars

\* C31: only complete lines are interpreted. While the render process is
\* active, the text it has written after its last CR/LF is what the buffer
\* holds, and the frame count is the largest frame number of the lines it
\* has ended, however its output was cut into chunks.
C31_OnlyCompleteLinesParsed ==
    \A i \in DOMAIN procs :
        ActiveRender(i) =>
            /\ stdout_buffer = procs[i].pending
            /\ ffmpeg_frame_count = procs[i].line_frame

\* C32: a WebP job goes IDLE, RENDER, FINISHED: while its render process is
\* the running current process the current step is RENDER, and the step is
\* never PALETTE or OPTIMIZE.
C32_WebpStepSequence ==
    is_webp =>
        /\ current_step \notin {"PALETTE", "OPTIMIZE"}
        /\ \A i \in DOMAIN procs :
               (ActiveRender(i) /\ procs[i].plan = "webp") => current_step = "RENDER"

\* C33: when a result is emitted, and in every state after it, no process
\* of the job is alive and the worker holds no process handle.
C33_NothingLeftAtResult ==
    /\ \A k \in DOMAIN results : results[k].live = 0 /\ ~results[k].held
    /\ results # <<>> => Live(procs) = {} /\ current_qprocess = 0

\* A cancellation request was accepted while the job had not ended: no
\* result was emitted before it.
CancelledDuringJob ==
    _is_cancelled /\ (results = <<>> \/ results[1].title = "Cancelled")

\* C34: once a cancellation request has been accepted during a job, every
\* result emitted afterwards is Cancelled; in particular none is a Success.
C34_OnlyCancelledAfterCancel ==
    [][CancelledDuringJob =>
          \A k \in NewResults : results'[k].title = "Cancelled" /\ ~results'[k].success]_vars

\* C35: every started job emits a result in the end, also when its process
\* ignores the terminate request of a cancellation: the grace timer then
\* kills it.
C35_JobEndsWithResult == started ~> (results # <<>>)

\* A cancelled job whose process ignored the terminate request, was killed
\* when the grace timer fired, and then ended: the result is out.
C35_Witness ==
    /\ started /\ results # <<>>
    /\ \E i \in DOMAIN procs :
           /\ procs[i].term /\ procs[i].kill
           /\ procs[i].state = "NotRunning"
           /\ procs[i].cancelled_at_exit
    /\ results[1].title = "Cancelled"

\* C36: after a result has been emitted the worker launches no external
\* process: every encoder, optimizer and frame-rate probe was launched
\* before the first result, and no later step adds one.
C36_NoLaunchAfterResult ==
    /\ \A i \in DOMAIN procs : procs[i].results_before = 0
    /\ \A k \in DOMAIN probes : probes[k].results_before = 0

\* C37: the dispatcher never runs uncancelled with the step IDLE, for which
\* its table has no handler: no handler ends in the KeyError of that lookup,
\* also not the one of a normal exit that arrives after an error-occurred
\* event has ended the job and reset the step.
C37_DispatcherNeverSeesIdle ==
    \A k \in DOMAIN out : ~(out[k].sig = "raise" /\ out[k].msg = "KeyError")

\* C38: the estimate of the total frames is set before a stdout line is
\* handled, in GIF and WebP jobs alike: the attribute exists from the first
\* launch of a process on, and no handler of a line ends in the
\* AttributeError of reading it.
C38_EstimateIsInitialised ==
    /\ procs # <<>> => estimated_total_frames # -1
    /\ \A k \in DOMAIN out : ~(out[k].sig = "raise" /\ out[k].msg = "AttributeError")

\* The line signals among what the runner's last handler emitted.
LineSignals == SelectSeq(emitted, LAMBDA m : m.sig \in {"stdout_line", "stderr_line"})

\* C39: a partial line in a buffer of the runner when its process exits is
\* never emitted: the exit emits no line, and the lines emitted for the
\* process started next are those of its own output alone, the text left in
\* the buffers by the process before it not among them.
C39_PartialLineNeverEmitted ==
    /\ [](/\ LineTexts(stdout_line) = TerminatedSegments(Decode(rx_stdout))
          /\ LineTexts(stderr_line) = TerminatedSegments(Decode(rx_stderr)))
    /\ [][(\E i \in DOMAIN qprocs : qprocs[i].state = "Running"
                                    /\ qprocs'[i].state = "NotRunning")
             => LineSignals' = <<>>]_vars

\* A process has exited with an unterminated line in the stdout buffer, and
\* no line was emitted for it.
C39_Witness ==
    /\ _process = 0
    /\ \E i \in DOMAIN qprocs : qprocs[i].state = "NotRunning" /\ qprocs[i].tag # ""
    /\ _stdout_buffer = <<"a">>
    /\ rx_stdout = <<"a">>
    /\ stdout_line = <<>>
    /\ \E k \in DOMAIN emitted : emitted[k].sig = "finished"

====
